---- MODULE Spec2Model ----
(***************************************************************************)
(* State model of the pxlai pixel editor: the document, layer and colour   *)
(* stores and the save-file codec.  The repository keeps several           *)
(* generations of the same stores side by side; each generation is         *)
(* modelled from its own source and has its own specification:             *)
(*   Spec       the providers App.tsx mounts: FileContext.tsx,             *)
(*              LayerContext.tsx and the ColorProvider of ColorContext.tsx *)
(*   SpecLayer  every operation of LayerContext.tsx on one document        *)
(*   SpecCC     the second ColorProvider of ColorContext.tsx (file version *)
(*              0.2) under the PhotoshopLayout of unnamed/part_010,        *)
(*              lines 635-827                                              *)
(*   Spec14     the ColorProvider of unnamed/part_014 (file version 0.3)   *)
(*              under the PhotoshopLayout of unnamed/part_010, lines 21+   *)
(*   SpecPalette  the palette import and export of ColorContext.tsx (second *)
(*              provider) and of unnamed/part_014, with the ASE and GPL    *)
(*              codecs computed byte by byte                               *)
(*   SpecCanvas the Canvas components of unnamed/part_006, 007 and 008     *)
(*              compositing a layer stack                                  *)
(* JavaScript values: `undefined` is an absent record key, `null` is the   *)
(* string "null"; identifiers are strings; a data URL is the record of the *)
(* canvas it encodes.  In the palette codecs a string is the sequence of   *)
(* its UTF-16 code units and a file body the sequence of its bytes.        *)
(***************************************************************************)
EXTENDS Integers, Sequences, FiniteSets, TLC

\* ---------------------------------------------------------------- bounds
MaxUuid == 3
MaxLayers == 2
MaxFiles == 2
\* the draws followed after a Canvas component mounts
MaxDraws == 2

\* ------------------------------------------------------- JavaScript values
Null == "null"
Ghost == "ghost"
UndefinedLayer == [undefined |-> TRUE]

UuidPool == <<"u1", "u2", "u3", "u4", "u5", "u6", "u7", "u8", "u9", "u10">>

Has(m, k) == k \in DOMAIN m
Put(m, k, v) == [x \in (DOMAIN m) \cup {k} |-> IF x = k THEN v ELSE m[x]]
Del(m, k) == [x \in (DOMAIN m) \ {k} |-> m[x]]
EmptyMap == [x \in {} |-> x]

\* {...prev[fileId]}
FileState(s, fileId) == IF Has(s, fileId) THEN s[fileId] ELSE EmptyMap
\* a field read through ?. : undefined and null both read as Null
Field(s, fileId, k) ==
  IF Has(s, fileId) /\ Has(s[fileId], k) THEN s[fileId][k] ELSE Null

\* a string-valued key that is present and neither null nor ""
Truthy(r, k) == Has(r, k) /\ r[k] \notin {Null, ""}

\* copy key k of record src to key k2 of r when src has it (an undefined
\* value is dropped by JSON.stringify and reads back as undefined)
Carry(r, k2, src, k) == IF Has(src, k) THEN Put(r, k2, src[k]) ELSE r

Min(a, b) == IF a < b THEN a ELSE b

RECURSIVE Filter(_, _)
Filter(s, keep) ==
  IF s = <<>> THEN <<>>
  ELSE (IF keep[Head(s)] THEN <<Head(s)>> ELSE <<>>) \o Filter(Tail(s), keep)

Range(s) == {s[i] : i \in 1..Len(s)}

IsLayer(l) == Has(l, "id")
LayerIdsOf(ls) == {l.id : l \in {x \in Range(ls) : IsLayer(x)}}
WithoutLayer(ls, layerId) ==
  Filter(ls, [l \in Range(ls) |-> l.id # layerId])
WithoutId(ids, layerId) ==
  Filter(ids, [i \in Range(ids) |-> i # layerId])

\* Array.prototype.splice(start, 1) followed by splice(end, 0, removed),
\* with 0-based indices as in the source
SpliceMove(ls, startIndex, endIndex) ==
  LET removed == IF startIndex < Len(ls) THEN ls[startIndex + 1] ELSE UndefinedLayer
      rest == IF startIndex < Len(ls)
              THEN SubSeq(ls, 1, startIndex) \o SubSeq(ls, startIndex + 2, Len(ls))
              ELSE ls
      at == Min(endIndex, Len(rest))
  IN SubSeq(rest, 1, at) \o <<removed>> \o SubSeq(rest, at + 1, Len(rest))

\* canvas.toDataURL() of a freshly created canvas
createWhiteCanvas(width, height) == [w |-> width, h |-> height, px |-> "white"]
createTransparentCanvas(width, height) == [w |-> width, h |-> height, px |-> "transparent"]

Black == "rgba(0, 0, 0, 1)"
White == "rgba(255, 255, 255, 1)"
Red == "rgba(255, 0, 0, 1)"
INITIAL_PALETTE ==
  << [id |-> "pBlack", value |-> Black, name |-> "Black"],
     [id |-> "pWhite", value |-> White, name |-> "White"] >>

\* ------------------------------------------------------------------ inputs
Widths == {4}
Heights == {6}
Names == {"Doc"}
LayerNames == {"Sketch"}
DefaultLayerName == "Layer now"
DrawnCanvas == [w |-> 4, h |-> 4, px |-> "drawn"]

ExtLayer(i, vis) == [id |-> i, name |-> "Ext", isVisible |-> vis, canvasData |-> DrawnCanvas]
ExtPalette == INITIAL_PALETTE \o <<[id |-> "pRed", value |-> Red, name |-> "Red"]>>

\* parsed JSON contents of save files offered to the loaders
ExtV3Empty ==
  [version |-> "0.3", id |-> "x1", name |-> "ext", width |-> 4, height |-> 4,
   layers |-> <<>>, activeLayerId |-> Null, canvasData |-> DrawnCanvas,
   palette |-> <<>>, currentColor |-> Null, sortOrder |-> "default",
   selectedColorId |-> Null]
ExtV3Full ==
  [version |-> "0.3", id |-> "x1", name |-> "ext", width |-> 4, height |-> 4,
   layers |-> <<ExtLayer("k1", TRUE), ExtLayer("k2", FALSE)>>, activeLayerId |-> "k2",
   canvasData |-> DrawnCanvas,
   palette |-> ExtPalette, currentColor |-> Red, sortOrder |-> "lightness-asc",
   selectedColorId |-> "pRed"]
ExtV2 ==
  [version |-> "0.2", id |-> "x1", name |-> "ext", width |-> 4, height |-> 4,
   layers |-> <<ExtLayer("k1", TRUE)>>, activeLayerId |-> "k1"]
ExtV2Partial ==
  [version |-> "0.2", id |-> "x1", name |-> "partial", width |-> 4, height |-> 4,
   layers |-> <<ExtLayer("k1", TRUE)>>, activeLayerId |-> "k1",
   palette |-> ExtPalette, sortOrder |-> "lightness-asc"]
ExtV1Flat ==
  [version |-> "0.1", id |-> "x2", name |-> "flat", width |-> 4, height |-> 4,
   canvasData |-> DrawnCanvas]
ExtNoVersion ==
  [id |-> "x2", name |-> "flat", width |-> 4, height |-> 4,
   canvasData |-> DrawnCanvas]
ExtFuture ==
  [version |-> "9.9", id |-> "x2", name |-> "future", width |-> 4, height |-> 4,
   layers |-> <<ExtLayer("k1", TRUE)>>, activeLayerId |-> "k1",
   palette |-> ExtPalette, currentColor |-> Red, sortOrder |-> "default",
   selectedColorId |-> "pRed"]
ExternalFiles ==
  {ExtV3Empty, ExtV3Full, ExtV2, ExtV2Partial, ExtV1Flat, ExtNoVersion, ExtFuture}

\* a bitmap is the colour of each of its pixels, "clear" where it is fully
\* transparent; the pixels followed lie in two neighbouring tiles of the
\* checkerboard
tileSize == 8
Pixels == {<<0, 0>>, <<tileSize, 0>>}
Blank == [p \in Pixels |-> "clear"]
NoIndex == 0

NoCanvas ==
  [component |-> "none", layers |-> <<>>, offScreen |-> EmptyMap, pending |-> {},
   composite |-> Blank]

\* --------------------------------------------------------------- variables
VARIABLES
  uuids,              \* number of uuidv4() values handed out
  error,              \* outcome of the last operation
  lastOp,             \* the last operation and its arguments
  \* LayerContext.tsx
  fileLayersState, activeLayerIds, selectedLayerIds,
  \* FileContext.tsx
  files, activeFileId, canvasData,
  notified,           \* the values passed to notifyFileChange, oldest first
  shared,             \* the shared functions FileProvider's last render read
  \* ColorProvider (ColorContext.tsx second provider, or unnamed/part_014)
  fileColorStates,
  \* PhotoshopLayout of unnamed/part_010
  layoutFiles, layoutActiveFileId,
  \* the mounted Canvas component: the layers its effect read, its off-screen
  \* canvases, the image loads still pending and the composite it has drawn
  canvas,
  \* the mounted ColorPalette component: the position of the swatch it
  \* highlights (its index plus one), NoIndex for null
  selectedIndex

layerVars == <<fileLayersState, activeLayerIds, selectedLayerIds>>
fileVars == <<files, activeFileId, canvasData, notified, shared>>
colorVars == <<fileColorStates, layoutFiles, layoutActiveFileId>>
uiVars == <<canvas, selectedIndex>>
vars == <<uuids, error, lastOp, layerVars, fileVars, colorVars, canvas, selectedIndex>>

uuidv4 == UuidPool[uuids + 1]
uuidv4b == UuidPool[uuids + 2]

Init ==
  /\ uuids = 0
  /\ error = "none"
  /\ lastOp = [op |-> "init"]
  /\ fileLayersState = EmptyMap
  /\ activeLayerIds = EmptyMap
  /\ selectedLayerIds = EmptyMap
  /\ files = <<>>
  /\ activeFileId = Null
  /\ canvasData = EmptyMap
  /\ notified = <<>>
  /\ shared = "default"
  /\ fileColorStates = EmptyMap
  /\ layoutFiles = <<>>
  /\ layoutActiveFileId = Null
  /\ canvas = NoCanvas
  /\ selectedIndex = NoIndex

Alive == error \notin {"crash", "hang"}

\* a TypeError thrown inside a state updater fails the render; there is no
\* error boundary, so React unmounts the tree and every provider's state is lost
Crash(opName) ==
  /\ error' = "crash"
  /\ lastOp' = [op |-> opName]
  /\ uuids' = uuids
  /\ fileLayersState' = EmptyMap
  /\ activeLayerIds' = EmptyMap
  /\ selectedLayerIds' = EmptyMap
  /\ files' = <<>>
  /\ activeFileId' = Null
  /\ canvasData' = EmptyMap
  /\ notified' = <<>>
  /\ shared' = "default"
  /\ fileColorStates' = EmptyMap
  /\ layoutFiles' = <<>>
  /\ layoutActiveFileId' = Null

\* ------------------------------------------------- arguments of the calls
OpenFileIds == {files[i].id : i \in 1..Len(files)}
FileArgs == OpenFileIds \cup {Ghost}
StoredLayerIds == UNION {LayerIdsOf(fileLayersState[f]) : f \in DOMAIN fileLayersState}
LayerArgs == StoredLayerIds \cup {Ghost}
IndexArgs == 0..MaxLayers

\* ========================================================= LayerContext.tsx
getLayers(fileId) == IF Has(fileLayersState, fileId) THEN fileLayersState[fileId] ELSE <<>>
getActiveLayerId(fileId) ==
  IF Truthy(activeLayerIds, fileId) THEN activeLayerIds[fileId] ELSE Null

\* some element of the list is `undefined`, so reading layer.id throws
HasHole(ls) == \E i \in 1..Len(ls) : ~IsLayer(ls[i])

NewLayer(layerId, layerName) ==
  [id |-> layerId, name |-> layerName, isVisible |-> TRUE,
   canvasData |-> createTransparentCanvas(500, 500)]

addLayerUpd(fileId, layerName, layerId) ==
  /\ fileLayersState' = Put(fileLayersState, fileId,
                            <<NewLayer(layerId, layerName)>> \o getLayers(fileId))
  /\ activeLayerIds' = Put(activeLayerIds, fileId, layerId)
  /\ UNCHANGED selectedLayerIds

addLayer(fileId, layerName) ==
  /\ Alive
  /\ uuids < MaxUuid
  /\ Len(getLayers(fileId)) < MaxLayers
  /\ addLayerUpd(fileId, layerName, uuidv4)
  /\ uuids' = uuids + 1
  /\ error' = "none"
  /\ lastOp' = [op |-> "addLayer"]
  /\ UNCHANGED <<fileVars, colorVars>>

\* activeLayerIds updater of deleteLayer: prev[fileId] is the active id, a
\* string, so prev[fileId][0] is its first character and ?.id is undefined
deleteLayerActive(prevActive, layerId) ==
  IF prevActive = layerId THEN Null ELSE prevActive

deleteLayer(fileId, layerId) ==
  /\ Alive
  /\ IF ~Has(fileLayersState, fileId) \/ ~Has(selectedLayerIds, fileId)
        \/ HasHole(getLayers(fileId))
     THEN Crash("deleteLayer")
     ELSE /\ fileLayersState' =
               Put(fileLayersState, fileId, WithoutLayer(fileLayersState[fileId], layerId))
          /\ activeLayerIds' =
               IF Has(activeLayerIds, fileId)
               THEN Put(activeLayerIds, fileId,
                        deleteLayerActive(activeLayerIds[fileId], layerId))
               ELSE activeLayerIds
          /\ selectedLayerIds' =
               Put(selectedLayerIds, fileId, WithoutId(selectedLayerIds[fileId], layerId))
          /\ error' = "none"
          /\ lastOp' = [op |-> "deleteLayer"]
          /\ UNCHANGED <<uuids, fileVars, colorVars>>

reorderLayers(fileId, startIndex, endIndex) ==
  /\ Alive
  /\ Len(SpliceMove(getLayers(fileId), startIndex, endIndex)) <= MaxLayers
  /\ fileLayersState' =
       Put(fileLayersState, fileId, SpliceMove(getLayers(fileId), startIndex, endIndex))
  /\ error' = "none"
  /\ lastOp' = [op |-> "reorderLayers"]
  /\ UNCHANGED <<uuids, activeLayerIds, selectedLayerIds, fileVars, colorVars>>

setActiveLayer(fileId, layerId) ==
  /\ Alive
  /\ activeLayerIds' = Put(activeLayerIds, fileId, layerId)
  /\ error' = "none"
  /\ lastOp' = [op |-> "setActiveLayer"]
  /\ UNCHANGED <<uuids, fileLayersState, selectedLayerIds, fileVars, colorVars>>

\* prev[fileId].map(layer => layer.id === layerId ? changed(layer) : layer),
\* with changed given as a function over the layers of the list
MapLayer(ls, layerId, changed) ==
  [i \in 1..Len(ls) |-> IF ls[i].id = layerId THEN changed[ls[i]] ELSE ls[i]]

mapLayers(opName, fileId, layerId, changed) ==
  /\ Alive
  /\ IF ~Has(fileLayersState, fileId) \/ HasHole(getLayers(fileId))
     THEN Crash(opName)
     ELSE /\ fileLayersState' =
               Put(fileLayersState, fileId, MapLayer(fileLayersState[fileId], layerId, changed))
          /\ error' = "none"
          /\ lastOp' = [op |-> opName]
          /\ UNCHANGED <<uuids, activeLayerIds, selectedLayerIds, fileVars, colorVars>>

toggleLayerVisibility(fileId, layerId) ==
  mapLayers("toggleLayerVisibility", fileId, layerId,
            [l \in Range(getLayers(fileId)) |-> [l EXCEPT !.isVisible = ~l.isVisible]])

updateLayerData(fileId, layerId, data) ==
  mapLayers("updateLayerData", fileId, layerId,
            [l \in Range(getLayers(fileId)) |-> [l EXCEPT !.canvasData = data]])

renameLayer(fileId, layerId, newName) ==
  mapLayers("renameLayer", fileId, layerId,
            [l \in Range(getLayers(fileId)) |-> [l EXCEPT !.name = newName]])

setSelectedLayerIds(fileId, layerIds) ==
  /\ Alive
  /\ selectedLayerIds' = Put(selectedLayerIds, fileId, layerIds)
  /\ error' = "none"
  /\ lastOp' = [op |-> "setSelectedLayerIds"]
  /\ UNCHANGED <<uuids, fileLayersState, activeLayerIds, fileVars, colorVars>>

InitialLayer(layerId, width, height, isTransparent) ==
  [id |-> layerId, name |-> "Background", isVisible |-> TRUE,
   canvasData |-> IF isTransparent THEN createTransparentCanvas(width, height)
                                   ELSE createWhiteCanvas(width, height)]

createInitialLayerUpd(fileId, initialLayer) ==
  /\ fileLayersState' = Put(fileLayersState, fileId, <<initialLayer>>)
  /\ activeLayerIds' = Put(activeLayerIds, fileId, initialLayer.id)
  /\ selectedLayerIds' = Put(selectedLayerIds, fileId, <<initialLayer.id>>)

\* layers[0]?.id || null
FirstIdOrNull(layers) ==
  IF Len(layers) > 0 /\ Truthy(layers[1], "id") THEN layers[1].id ELSE Null

setFileLayersUpd(fileId, layers) ==
  /\ fileLayersState' = Put(fileLayersState, fileId, layers)
  /\ activeLayerIds' = Put(activeLayerIds, fileId, FirstIdOrNull(layers))
  /\ selectedLayerIds' = Put(selectedLayerIds, fileId, <<FirstIdOrNull(layers)>>)


\* =========================================================== FileContext.tsx
MaxNotified == 1
\* the log keeps the last MaxNotified values
notifyFileChange(fileId) ==
  notified' = IF Len(notified) < MaxNotified THEN Append(notified, fileId)
              ELSE Append(Tail(notified), fileId)

Position == [x |-> 300, y |-> 50]

\* FileProvider reads the shared functions when it renders (FileContext.tsx
\* line 29) and LayerProvider, its child, registers createInitialLayer and
\* setFileLayers when it renders in turn: until a change of FileProvider's own
\* state makes it render again, its functions call the defaults of
\* SharedContextFunctions, whose createInitialLayer returns {} and whose
\* setFileLayers does nothing
createNewFile(width, height, name, isTransparent) ==
  /\ Alive
  /\ Len(files) < MaxFiles
  /\ LET newFileId == uuidv4
         registered == shared = "registered"
         initialLayer == IF registered
                         THEN InitialLayer(uuidv4b, width, height, isTransparent)
                         ELSE EmptyMap
         base == [id |-> newFileId, name |-> name, width |-> width, height |-> height,
                  position |-> Position, layers |-> <<initialLayer>>]
         newFile == Carry(base, "activeLayerId", initialLayer, "id")
     IN /\ uuids + (IF registered THEN 2 ELSE 1) <= MaxUuid
        /\ uuids' = uuids + (IF registered THEN 2 ELSE 1)
        /\ IF registered THEN createInitialLayerUpd(newFileId, initialLayer)
                         ELSE UNCHANGED layerVars
        /\ files' = Append(files, newFile)
        /\ activeFileId' = newFileId
        /\ canvasData' = IF Has(initialLayer, "canvasData")
                         THEN Put(canvasData, newFileId, initialLayer.canvasData)
                         ELSE Del(canvasData, newFileId)
        /\ notifyFileChange(newFileId)
        /\ lastOp' = [op |-> "createNewFile"]
  /\ shared' = "registered"
  /\ error' = "none"
  /\ UNCHANGED colorVars

remainingFiles(fileId) == Filter(files, [f \in Range(files) |-> f.id # fileId])

closeFile(fileId) ==
  /\ Alive
  /\ files' = remainingFiles(fileId)
  /\ activeFileId' =
       IF activeFileId = fileId
       THEN (IF Len(remainingFiles(fileId)) > 0 THEN remainingFiles(fileId)[1].id ELSE Null)
       ELSE activeFileId
  /\ canvasData' = Del(canvasData, fileId)
  /\ notifyFileChange(IF Len(remainingFiles(fileId)) > 0
                      THEN remainingFiles(fileId)[1].id ELSE Null)
  /\ error' = "none"
  /\ lastOp' = [op |-> "closeFile"]
  /\ shared' = "registered"
  /\ UNCHANGED <<uuids, layerVars, colorVars>>

activateFile(fileId) ==
  /\ Alive
  /\ activeFileId' = fileId
  /\ notifyFileChange(fileId)
  /\ error' = "none"
  /\ lastOp' = [op |-> "activateFile"]
  /\ shared' = IF activeFileId = fileId THEN shared ELSE "registered"
  /\ UNCHANGED <<uuids, layerVars, files, canvasData, colorVars>>

updateCanvasData(fileId, data) ==
  /\ Alive
  /\ canvasData' = Put(canvasData, fileId, data)
  /\ shared' = "registered"
  /\ error' = "none"
  /\ lastOp' = [op |-> "updateCanvasData"]
  /\ UNCHANGED <<uuids, layerVars, files, activeFileId, notified, colorVars>>

FindFile(fileId) == {i \in 1..Len(files) : files[i].id = fileId}
FirstFile(fileId) == files[CHOOSE i \in FindFile(fileId) : \A j \in FindFile(fileId) : i <= j]

\* getFileColorState is the default of SharedContextFunctions, which returns
\* null, so the colour fields are written as their fallbacks
saveFileData(file, fileId) ==
  LET base == [version |-> "0.3", id |-> fileId, name |-> file.name,
               width |-> file.width, height |-> file.height,
               palette |-> <<>>, currentColor |-> Null,
               sortOrder |-> "default", selectedColorId |-> Null]
      withLayers == Carry(base, "layers", file, "layers")
      withActive == Carry(withLayers, "activeLayerId", file, "activeLayerId")
  IN Carry(withActive, "canvasData", canvasData, fileId)

\* the blob handed to the browser is recorded in lastOp.download
saveFile(fileId) ==
  /\ Alive
  /\ lastOp' = IF FindFile(fileId) # {}
               THEN [op |-> "saveFile", download |-> saveFileData(FirstFile(fileId), fileId)]
               ELSE [op |-> "saveFile"]
  /\ error' = "none"
  /\ UNCHANGED <<uuids, layerVars, fileVars, colorVars>>

Malformed == [malformed |-> TRUE]
LoadArgs == {ExtV3Full, ExtV1Flat, Malformed}

loadFile(fileData) ==
  /\ Alive
  /\ Len(files) < MaxFiles
  /\ IF Has(fileData, "malformed")
     THEN /\ error' = "SyntaxError"
          /\ lastOp' = [op |-> "loadFile"]
          /\ UNCHANGED <<uuids, layerVars, fileVars, colorVars>>
     ELSE IF Has(fileData, "version") /\ fileData.version = "0.3"
     THEN IF ~Has(fileData, "layers") /\ shared = "registered"
          THEN Crash("loadFile")
          ELSE LET base == [id |-> fileData.id, name |-> fileData.name,
                            width |-> fileData.width, height |-> fileData.height,
                            position |-> Position]
                   newFile == Carry(Carry(base, "layers", fileData, "layers"),
                                    "activeLayerId", fileData, "activeLayerId")
               IN /\ files' = Append(files, newFile)
                  /\ activeFileId' = newFile.id
                  /\ canvasData' = IF Has(fileData, "canvasData")
                                   THEN Put(canvasData, newFile.id, fileData.canvasData)
                                   ELSE Del(canvasData, newFile.id)
                  /\ IF shared = "registered"
                     THEN setFileLayersUpd(newFile.id, fileData.layers)
                     ELSE UNCHANGED layerVars
                  /\ shared' = "registered"
                  /\ notifyFileChange(newFile.id)
                  /\ error' = "none"
                  /\ lastOp' = [op |-> "loadFile"]
                  /\ UNCHANGED <<uuids, colorVars>>
     ELSE /\ error' = "Unsupported file version"
          /\ lastOp' = [op |-> "loadFile"]
          /\ UNCHANGED <<uuids, layerVars, fileVars, colorVars>>

\* setFileLayers called on its own
LayerListArgs == {<<>>, <<ExtLayer("k1", TRUE)>>}

setFileLayers(fileId, layers) ==
  /\ Alive
  /\ setFileLayersUpd(fileId, layers)
  /\ error' = "none"
  /\ lastOp' = [op |-> "setFileLayers"]
  /\ UNCHANGED <<uuids, fileVars, colorVars>>

SelectionArgs == {<<>>} \cup {<<a>> : a \in LayerArgs}

\* ------------------------------------------------------------------------
\* SpecLayer: every LayerContext operation on one document made by
\* createNewFile, with saveFile
NextLayer ==
  \/ \E w \in Widths, h \in Heights, n \in Names, t \in BOOLEAN :
        Len(files) = 0 /\ createNewFile(w, h, n, t) /\ UNCHANGED uiVars
  \/ \E f \in OpenFileIds, ls \in LayerListArgs : setFileLayers(f, ls) /\ UNCHANGED uiVars
  \/ \E f \in OpenFileIds : addLayer(f, DefaultLayerName) /\ UNCHANGED uiVars
  \/ \E f \in OpenFileIds, l \in LayerArgs : deleteLayer(f, l) /\ UNCHANGED uiVars
  \/ \E f \in OpenFileIds, i \in IndexArgs, j \in IndexArgs : reorderLayers(f, i, j) /\ UNCHANGED uiVars
  \/ \E f \in OpenFileIds, l \in LayerArgs : setActiveLayer(f, l) /\ UNCHANGED uiVars
  \/ \E f \in OpenFileIds, l \in LayerArgs : toggleLayerVisibility(f, l) /\ UNCHANGED uiVars
  \/ \E f \in OpenFileIds, l \in LayerArgs : updateLayerData(f, l, DrawnCanvas) /\ UNCHANGED uiVars
  \/ \E f \in OpenFileIds, l \in LayerArgs, n \in LayerNames : renameLayer(f, l, n) /\ UNCHANGED uiVars
  \/ \E f \in OpenFileIds, ids \in SelectionArgs : setSelectedLayerIds(f, ids) /\ UNCHANGED uiVars
  \/ \E f \in OpenFileIds : saveFile(f) /\ UNCHANGED uiVars
  \/ \E f \in FileArgs : Len(files) = 0 /\ updateCanvasData(f, DrawnCanvas) /\ UNCHANGED uiVars

SpecLayer == Init /\ [][NextLayer]_vars


\* ================== ColorContext.tsx, second ColorProvider (file version 0.2)
CURRENT_FILE_VERSION == "0.2"

EmptyColorState ==
  [currentColor |-> Null, palette |-> <<>>, sortOrder |-> "default",
   selectedColorId |-> Null, layers |-> <<>>, activeLayerId |-> Null,
   selectedLayerIds |-> <<>>]

\* a read that, for an id the store does not know, queues the creation of an
\* empty colour state
getFileColorState(fileId) ==
  /\ Alive
  /\ fileColorStates' =
       IF fileId \notin {Null, ""} /\ ~Has(fileColorStates, fileId)
       THEN Put(fileColorStates, fileId, EmptyColorState)
       ELSE fileColorStates
  /\ error' = "none"
  /\ lastOp' = [op |-> "getFileColorState"]
  /\ UNCHANGED <<uuids, layerVars, fileVars, layoutFiles, layoutActiveFileId>>

\* the layer-and-colour operations of the second ColorProvider; names that
\* LayerContext.tsx or FileContext.tsx also use carry the suffix CC
InitialColorState(initialLayer) ==
  [currentColor |-> Black, palette |-> INITIAL_PALETTE, sortOrder |-> "default",
   selectedColorId |-> INITIAL_PALETTE[1].id, layers |-> <<initialLayer>>,
   activeLayerId |-> initialLayer.id, selectedLayerIds |-> <<initialLayer.id>>]

\* initializeFile: the updater returns prev when the id already has a state
initializeFileCC(fileId, layerId, width, height, isTransparent) ==
  IF Has(fileColorStates, fileId) THEN fileColorStates
  ELSE Put(fileColorStates, fileId,
           InitialColorState(InitialLayer(layerId, width, height, isTransparent)))

NumberedLayerName(n) == <<"Layer 1", "Layer 2", "Layer 3", "Layer 4", "Layer 5">>[n]

LegacyLayer(layerId, fileData) ==
  Carry([id |-> layerId, name |-> NumberedLayerName(1), isVisible |-> TRUE],
        "canvasData", fileData, "canvasData")

\* what saveFile hands to the browser; undefined fields are dropped by
\* JSON.stringify
saveFileDataCC(fileState, fileId, fileName, width, height) ==
  LET base == [version |-> CURRENT_FILE_VERSION, id |-> fileId, name |-> fileName,
               width |-> width, height |-> height]
      c1 == Carry(base, "currentColor", fileState, "currentColor")
      c2 == Carry(c1, "palette", fileState, "palette")
      c3 == Carry(c2, "sortOrder", fileState, "sortOrder")
      c4 == Carry(c3, "selectedColorId", fileState, "selectedColorId")
      c5 == Carry(c4, "layers", fileState, "layers")
  IN Carry(c5, "activeLayerId", fileState, "activeLayerId")

\* the version loadFile switches on: a falsy version is replaced by "0.1"
versionCC(fileData) == IF Truthy(fileData, "version") THEN fileData.version ELSE "0.1"

\* loadFile draws a uuid for a file without layers
loadNeedsUuidCC(fileData) ==
  versionCC(fileData) = "0.1" \/ (versionCC(fileData) # "0.2" /\ ~Has(fileData, "layers"))

\* the default branch reads layers[0].id when activeLayerId is falsy
loadThrowsCC(fileData) ==
  /\ versionCC(fileData) \notin {"0.1", "0.2"}
  /\ Has(fileData, "layers") /\ ~Truthy(fileData, "activeLayerId")
  /\ (Len(fileData.layers) = 0 \/ ~IsLayer(fileData.layers[1]))

\* layers and activeLayerId as computed by the switch, as a record that lacks
\* a key whose value is undefined
loadedLayersCC(fileData, layerId) ==
  IF versionCC(fileData) = "0.1"
  THEN [layers |-> <<LegacyLayer(layerId, fileData)>>, activeLayerId |-> layerId]
  ELSE IF versionCC(fileData) = "0.2"
  THEN Carry(Carry(EmptyMap, "layers", fileData, "layers"),
             "activeLayerId", fileData, "activeLayerId")
  ELSE LET layers == IF Has(fileData, "layers") THEN fileData.layers
                     ELSE <<LegacyLayer(layerId, fileData)>>
       IN [layers |-> layers,
           activeLayerId |-> IF Truthy(fileData, "activeLayerId")
                             THEN fileData.activeLayerId ELSE layers[1].id]

loadedStateCC(fileData, layerId) ==
  LET c1 == Carry(loadedLayersCC(fileData, layerId), "currentColor", fileData, "currentColor")
      c2 == Carry(c1, "palette", fileData, "palette")
      c3 == Carry(c2, "sortOrder", fileData, "sortOrder")
      c4 == Carry(c3, "selectedColorId", fileData, "selectedColorId")
  IN Put(c4, "selectedLayerIds", <<>>)

\* updaters of the form  prev => { const file = prev[fileId]; if (!file) return prev; ... }
ccUpdate(opName, fileId, newFile) ==
  /\ Alive
  /\ fileColorStates' = IF Has(fileColorStates, fileId)
                        THEN Put(fileColorStates, fileId, newFile)
                        ELSE fileColorStates
  /\ error' = "none"
  /\ lastOp' = [op |-> opName]
  /\ UNCHANGED <<layerVars, fileVars, layoutFiles, layoutActiveFileId>>

addLayerCC(fileId) ==
  IF Has(fileColorStates, fileId) /\ ~Has(fileColorStates[fileId], "layers")
  THEN Alive /\ Crash("addLayer")
  ELSE /\ uuids < MaxUuid
       /\ Has(fileColorStates, fileId) => Len(fileColorStates[fileId].layers) < MaxLayers
       /\ uuids' = IF Has(fileColorStates, fileId) THEN uuids + 1 ELSE uuids
       /\ ccUpdate("addLayer", fileId,
            LET file == fileColorStates[fileId]
                newLayer == [id |-> uuidv4, name |-> NumberedLayerName(Len(file.layers) + 1),
                             isVisible |-> TRUE,
                             canvasData |-> createTransparentCanvas(32, 32)]
            IN Put(Put(Put(file, "layers", <<newLayer>> \o file.layers),
                       "activeLayerId", newLayer.id),
                   "selectedLayerIds", <<newLayer.id>>))

removeLayer(fileId, layerId) ==
  IF Has(fileColorStates, fileId)
     /\ (~Has(fileColorStates[fileId], "layers") \/ HasHole(fileColorStates[fileId].layers))
  THEN Alive /\ Crash("removeLayer")
  ELSE /\ UNCHANGED uuids
       /\ ccUpdate("removeLayer", fileId,
            LET file == fileColorStates[fileId]
                newLayers == WithoutLayer(file.layers, layerId)
            IN Put(Put(Put(file, "layers", newLayers),
                       "activeLayerId", IF Len(newLayers) > 0 THEN newLayers[1].id ELSE Null),
                   "selectedLayerIds", <<>>))

\* ------------ PhotoshopLayout of unnamed/part_010, lines 635-827 (useColor)
LayoutFileIds == {layoutFiles[i].id : i \in 1..Len(layoutFiles)}
FindLayoutFile(fileId) == {i \in 1..Len(layoutFiles) : layoutFiles[i].id = fileId}

handleCreateNewFile(width, height, name, isTransparent) ==
  /\ Alive
  /\ uuids + 2 <= MaxUuid
  /\ Len(layoutFiles) < MaxFiles
  /\ LET newFile == [id |-> uuidv4, name |-> name, width |-> width, height |-> height,
                     position |-> Position, layers |-> <<>>, activeLayerId |-> Null]
     IN /\ layoutFiles' = Append(layoutFiles, newFile)
        /\ layoutActiveFileId' = newFile.id
        /\ fileColorStates' = initializeFileCC(newFile.id, uuidv4b, width, height, isTransparent)
  /\ uuids' = uuids + 2
  /\ error' = "none"
  /\ lastOp' = [op |-> "handleCreateNewFile"]
  /\ UNCHANGED <<layerVars, fileVars>>

handleCloseFile(fileId) ==
  /\ Alive
  /\ layoutFiles' = Filter(layoutFiles, [f \in Range(layoutFiles) |-> f.id # fileId])
  /\ layoutActiveFileId' =
       IF layoutActiveFileId = fileId
       THEN (IF Len(layoutFiles) > 1 THEN layoutFiles[1].id ELSE Null)
       ELSE layoutActiveFileId
  /\ error' = "none"
  /\ lastOp' = [op |-> "handleCloseFile"]
  /\ UNCHANGED <<uuids, layerVars, fileVars, fileColorStates>>

handleActivateFile(fileId) ==
  /\ Alive
  /\ layoutActiveFileId' = fileId
  /\ error' = "none"
  /\ lastOp' = [op |-> "handleActivateFile"]
  /\ UNCHANGED <<uuids, layerVars, fileVars, fileColorStates, layoutFiles>>

handleBackgroundClick ==
  /\ Alive
  /\ layoutActiveFileId' = Null
  /\ error' = "none"
  /\ lastOp' = [op |-> "handleBackgroundClick"]
  /\ UNCHANGED <<uuids, layerVars, fileVars, fileColorStates, layoutFiles>>

\* saveFile returns early without a colour state; the canvas element it looks
\* up exists for every document of the layout
handleSaveFile(fileId) ==
  /\ Alive
  /\ lastOp' =
       IF FindLayoutFile(fileId) # {} /\ Has(fileColorStates, fileId)
       THEN LET file == layoutFiles[CHOOSE i \in FindLayoutFile(fileId) :
                                       \A j \in FindLayoutFile(fileId) : i <= j]
            IN [op |-> "handleSaveFile",
                download |-> saveFileDataCC(fileColorStates[fileId], fileId,
                                            file.name, file.width, file.height)]
       ELSE [op |-> "handleSaveFile"]
  /\ error' = "none"
  /\ UNCHANGED <<uuids, layerVars, fileVars, colorVars>>

handleLoadFile(fileData) ==
  /\ Alive
  /\ Len(layoutFiles) < MaxFiles
  /\ lastOp' = [op |-> "handleLoadFile"]
  /\ UNCHANGED <<layerVars, fileVars>>
  /\ IF Has(fileData, "malformed") \/ loadThrowsCC(fileData)
     THEN /\ error' = "Failed to load file"
          /\ UNCHANGED <<uuids, colorVars>>
     ELSE /\ loadNeedsUuidCC(fileData) => uuids < MaxUuid
          /\ uuids' = IF loadNeedsUuidCC(fileData) THEN uuids + 1 ELSE uuids
          /\ fileColorStates' = Put(fileColorStates, fileData.id, loadedStateCC(fileData, uuidv4))
          /\ LET loaded == loadedLayersCC(fileData, uuidv4)
                 base == [id |-> fileData.id, name |-> fileData.name,
                          width |-> fileData.width, height |-> fileData.height,
                          position |-> Position]
                 newFile == Carry(Carry(base, "layers", loaded, "layers"),
                                  "activeLayerId", loaded, "activeLayerId")
             IN /\ layoutFiles' = Append(layoutFiles, newFile)
                /\ layoutActiveFileId' = newFile.id
          /\ error' = "none"

\* ------------------------------------------------------------------------
\* SpecCC: the PhotoshopLayout of unnamed/part_010 (lines 635-827) over the
\* second ColorProvider of ColorContext.tsx
LayoutFileArgs == LayoutFileIds \cup {Ghost}
CCLayerArgs(fileId) ==
  (IF Has(fileColorStates, fileId) /\ Has(fileColorStates[fileId], "layers")
   THEN LayerIdsOf(fileColorStates[fileId].layers) ELSE {}) \cup {Ghost}
CCLoadArgs == {ExtV2, ExtV2Partial, ExtV1Flat, ExtNoVersion, ExtFuture, Malformed}

NextCC ==
  \/ \E w \in Widths, h \in Heights, n \in Names, t \in BOOLEAN :
        handleCreateNewFile(w, h, n, t) /\ UNCHANGED uiVars
  \/ \E d \in CCLoadArgs : handleLoadFile(d) /\ UNCHANGED uiVars
  \/ \E f \in LayoutFileIds : handleCloseFile(f) /\ UNCHANGED uiVars
  \/ \E f \in LayoutFileIds : handleActivateFile(f) /\ UNCHANGED uiVars
  \/ handleBackgroundClick /\ UNCHANGED uiVars
  \/ \E f \in LayoutFileIds : handleSaveFile(f) /\ UNCHANGED uiVars
  \/ \E f \in LayoutFileArgs : addLayerCC(f) /\ UNCHANGED uiVars
  \/ \E f \in LayoutFileArgs : \E l \in CCLayerArgs(f) : removeLayer(f, l) /\ UNCHANGED uiVars

SpecCC == Init /\ [][NextCC]_vars

\* ============== unnamed/part_014: the ColorProvider with file version "0.3"
\* (names shared with the other generations carry the suffix 14)
CURRENT_FILE_VERSION14 == "0.3"

saveFileData14(fileState, fileId, fileName, width, height) ==
  [version |-> CURRENT_FILE_VERSION14, id |-> fileId, name |-> fileName,
   width |-> width, height |-> height, colorState |-> fileState]

KnownVersion14(fileData) ==
  Has(fileData, "version") /\ fileData.version \in {"0.1", "0.2", "0.3"}

BackgroundLayer14(layerId, fileData) ==
  Carry([id |-> layerId, name |-> "Background", isVisible |-> TRUE],
        "canvasData", fileData, "canvasData")

loadNeedsUuid14(fileData) == fileData.version = "0.1" \/ ~Has(fileData, "layers")

\* the switch throws for an unknown version, and the "0.2"/"0.3" branch reads
\* layers[0].id and palette[0].id when the field they default is falsy
loadThrows14(fileData) ==
  \/ ~KnownVersion14(fileData)
  \/ /\ fileData.version # "0.1"
     /\ \/ /\ Has(fileData, "layers") /\ ~Truthy(fileData, "activeLayerId")
           /\ (Len(fileData.layers) = 0 \/ ~IsLayer(fileData.layers[1]))
        \/ /\ Has(fileData, "palette") /\ ~Truthy(fileData, "selectedColorId")
           /\ Len(fileData.palette) = 0

loadedState14(fileData, layerId) ==
  LET legacy == fileData.version = "0.1"
      layers == IF ~legacy /\ Has(fileData, "layers") THEN fileData.layers
                ELSE <<BackgroundLayer14(layerId, fileData)>>
      activeLayerId == IF ~legacy /\ Truthy(fileData, "activeLayerId")
                       THEN fileData.activeLayerId ELSE layers[1].id
      palette == IF ~legacy /\ Has(fileData, "palette") THEN fileData.palette
                 ELSE INITIAL_PALETTE
  IN [currentColor |-> IF ~legacy /\ Truthy(fileData, "currentColor")
                       THEN fileData.currentColor ELSE Black,
      palette |-> palette,
      sortOrder |-> IF ~legacy /\ Truthy(fileData, "sortOrder")
                    THEN fileData.sortOrder ELSE "default",
      selectedColorId |-> IF ~legacy /\ Truthy(fileData, "selectedColorId")
                          THEN fileData.selectedColorId ELSE palette[1].id,
      layers |-> layers,
      activeLayerId |-> activeLayerId,
      selectedLayerIds |-> IF Has(fileData, "selectedLayerIds")
                           THEN fileData.selectedLayerIds ELSE <<activeLayerId>>]

\* updaters of the form  prev => { const file = prev[fileId]; if (!file) return prev; ... }
update14(opName, fileId, newFile) ==
  /\ fileColorStates' = IF Has(fileColorStates, fileId)
                        THEN Put(fileColorStates, fileId, newFile)
                        ELSE fileColorStates
  /\ error' = "none"
  /\ lastOp' = [op |-> opName]
  /\ UNCHANGED <<layerVars, fileVars, layoutFiles, layoutActiveFileId>>

\* Layer has no width or height: the new canvas gets width and height
\* undefined, which the canvas element stores as 0
addLayer14(fileId, name) ==
  /\ Alive
  /\ IF Has(fileColorStates, fileId) /\ Len(fileColorStates[fileId].layers) = 0
     THEN Crash("addLayer")
     ELSE /\ uuids < MaxUuid
          /\ Has(fileColorStates, fileId) => Len(fileColorStates[fileId].layers) < MaxLayers
          /\ uuids' = IF Has(fileColorStates, fileId) THEN uuids + 1 ELSE uuids
          /\ update14("addLayer", fileId,
               LET file == fileColorStates[fileId]
                   newLayer == [id |-> uuidv4, name |-> name, isVisible |-> TRUE,
                                canvasData |-> createTransparentCanvas(0, 0)]
               IN Put(Put(file, "layers", <<newLayer>> \o file.layers),
                      "activeLayerId", newLayer.id))

deleteLayer14(fileId, layerId) ==
  /\ Alive
  /\ UNCHANGED uuids
  /\ update14("deleteLayer", fileId,
       LET file == fileColorStates[fileId]
           newLayers == WithoutLayer(file.layers, layerId)
           newActiveLayerId == IF file.activeLayerId = layerId
                               THEN FirstIdOrNull(newLayers) ELSE file.activeLayerId
       IN Put(Put(Put(file, "layers", newLayers), "activeLayerId", newActiveLayerId),
              "selectedLayerIds", WithoutId(file.selectedLayerIds, layerId)))

\* ------------- PhotoshopLayout of unnamed/part_010, lines 21-365 (useColor)
handleCreateNewFile14(width, height, name, isTransparent) ==
  /\ Alive
  /\ uuids + 2 <= MaxUuid
  /\ Len(layoutFiles) < MaxFiles
  /\ LET newFile == [id |-> uuidv4, name |-> name, width |-> width, height |-> height,
                     position |-> Position, layers |-> <<>>, activeLayerId |-> Null]
     IN /\ layoutFiles' = Append(layoutFiles, newFile)
        /\ layoutActiveFileId' = newFile.id
        /\ fileColorStates' =
             Put(fileColorStates, newFile.id,
                 InitialColorState(InitialLayer(uuidv4b, width, height, isTransparent)))
  /\ uuids' = uuids + 2
  /\ error' = "none"
  /\ lastOp' = [op |-> "handleCreateNewFile"]
  /\ UNCHANGED <<layerVars, fileVars>>

handleClose(fileId) ==
  /\ Alive
  /\ LET remaining == Filter(layoutFiles, [f \in Range(layoutFiles) |-> f.id # fileId])
     IN /\ layoutFiles' = remaining
        /\ layoutActiveFileId' =
             IF layoutActiveFileId = fileId
             THEN (IF Len(remaining) > 0 THEN remaining[1].id ELSE Null)
             ELSE layoutActiveFileId
  /\ fileColorStates' = Del(fileColorStates, fileId)
  /\ error' = "none"
  /\ lastOp' = [op |-> "handleClose"]
  /\ UNCHANGED <<uuids, layerVars, fileVars>>

handleActivate(fileId) ==
  /\ Alive
  /\ layoutActiveFileId' = fileId
  /\ error' = "none"
  /\ lastOp' = [op |-> "handleActivate"]
  /\ UNCHANGED <<uuids, layerVars, fileVars, fileColorStates, layoutFiles>>

FirstLayoutFile(fileId) ==
  layoutFiles[CHOOSE i \in FindLayoutFile(fileId) : \A j \in FindLayoutFile(fileId) : i <= j]

\* the save file handleSaveFile produces for a document of the layout
savedFile14(fileId) ==
  saveFileData14(fileColorStates[fileId], fileId, FirstLayoutFile(fileId).name,
                 FirstLayoutFile(fileId).width, FirstLayoutFile(fileId).height)

handleSaveFile14(fileId) ==
  /\ Alive
  /\ lastOp' = IF FindLayoutFile(fileId) # {} /\ Has(fileColorStates, fileId)
               THEN [op |-> "handleSaveFile", download |-> savedFile14(fileId)]
               ELSE [op |-> "handleSaveFile"]
  /\ error' = "none"
  /\ UNCHANGED <<uuids, layerVars, fileVars, colorVars>>

handleLoadFile14(fileData) ==
  /\ Alive
  /\ Len(layoutFiles) < MaxFiles
  /\ lastOp' = [op |-> "handleLoadFile"]
  /\ UNCHANGED <<layerVars, fileVars>>
  /\ IF Has(fileData, "malformed") \/ loadThrows14(fileData)
     THEN /\ error' = "Failed to load file"
          /\ UNCHANGED <<uuids, colorVars>>
     ELSE /\ loadNeedsUuid14(fileData) => uuids < MaxUuid
          /\ uuids' = IF loadNeedsUuid14(fileData) THEN uuids + 1 ELSE uuids
          /\ LET loaded == loadedState14(fileData, uuidv4)
                 newFile == [id |-> fileData.id, name |-> fileData.name,
                             width |-> fileData.width, height |-> fileData.height,
                             position |-> Position, layers |-> loaded.layers,
                             activeLayerId |-> loaded.activeLayerId]
             IN /\ fileColorStates' = Put(fileColorStates, fileData.id, loaded)
                /\ layoutFiles' = Append(layoutFiles, newFile)
                /\ layoutActiveFileId' = newFile.id
          /\ error' = "none"

\* ------------------------------------------------------------------------
\* Spec14: the PhotoshopLayout of unnamed/part_010 (lines 21-365) over the
\* ColorProvider of unnamed/part_014; a document's own save file is among the
\* files offered to the loader
SavedFiles14 == {savedFile14(f) : f \in LayoutFileIds \cap DOMAIN fileColorStates}
Load14Args ==
  {ExtV3Full, ExtV3Empty, ExtV1Flat, ExtNoVersion, ExtFuture, Malformed} \cup SavedFiles14
Layer14Args(fileId) ==
  (IF Has(fileColorStates, fileId) THEN LayerIdsOf(fileColorStates[fileId].layers) ELSE {})
  \cup {Ghost}

Next14 ==
  \/ \E w \in Widths, h \in Heights, n \in Names, t \in BOOLEAN :
        handleCreateNewFile14(w, h, n, t) /\ UNCHANGED uiVars
  \/ \E d \in Load14Args : handleLoadFile14(d) /\ UNCHANGED uiVars
  \/ \E f \in LayoutFileIds : handleClose(f) /\ UNCHANGED uiVars
  \/ \E f \in LayoutFileIds : handleActivate(f) /\ UNCHANGED uiVars
  \/ \E f \in LayoutFileIds : handleSaveFile14(f) /\ UNCHANGED uiVars
  \/ \E f \in LayoutFileArgs : addLayer14(f, DefaultLayerName) /\ UNCHANGED uiVars
  \/ \E f \in LayoutFileArgs : \E l \in Layer14Args(f) : deleteLayer14(f, l) /\ UNCHANGED uiVars

Spec14 == Init /\ [][Next14]_vars

\* ======================= palette files: ColorContext.tsx, second provider
\* ========================================================================
\* Palette interchange codecs.  In this part a JavaScript string is the
\* sequence of its UTF-16 code units and an ArrayBuffer, Blob or file body the
\* sequence of its bytes.
\* NaN is kept apart from the numbers of the model, which are all >= 0
NaN == -1
RangeError == "RangeError"

IsDigit(c) == c \in 48..57
\* the white space of String.prototype.trim and of \s
IsSpace(c) ==
  c \in {9, 10, 11, 12, 13, 32, 160, 5760, 8232, 8233, 8239, 8287, 12288, 65279}
      \cup (8192..8202)

\* Number.prototype.toString() of a non-negative integer
RECURSIVE NumToChars(_)
NumToChars(n) ==
  IF n < 10 THEN <<48 + n>> ELSE Append(NumToChars(n \div 10), 48 + (n % 10))

\* `${x}` of a number that is an integer or NaN
NumberToString(x) == IF x = NaN THEN <<78, 97, 78>> ELSE NumToChars(x)

\* Number(s) of a string: the value of a run of decimal digits, NaN for any
\* other string (the modelled files hold no sign, decimal point or exponent
\* where Number is applied)
RECURSIVE DigitsValue(_)
DigitsValue(s) ==
  IF s = <<>> THEN 0 ELSE (10 * DigitsValue(SubSeq(s, 1, Len(s) - 1))) + (s[Len(s)] - 48)
Number(s) ==
  IF s # <<>> /\ \A i \in 1..Len(s) : IsDigit(s[i]) THEN DigitsValue(s) ELSE NaN

\* the elements of a set of indices in increasing order
Ascending(S) ==
  [k \in 1..Cardinality(S) |-> CHOOSE i \in S : Cardinality({j \in S : j <= i}) = k]

\* the concatenation of a sequence of sequences
RECURSIVE Concat(_)
Concat(ss) ==
  IF ss = <<>> THEN <<>>
  ELSE IF Len(ss) = 1 THEN ss[1]
  ELSE Concat(SubSeq(ss, 1, Len(ss) \div 2)) \o Concat(SubSeq(ss, (Len(ss) \div 2) + 1, Len(ss)))

\* the maximal runs of elements of s that satisfy `in` (a function on the
\* indices of s), left to right
Runs(s, in) ==
  LET starts == {i \in 1..Len(s) : in[i] /\ (i = 1 \/ ~in[i - 1])}
      stop(i) == CHOOSE j \in i..Len(s) :
                   /\ \A k \in i..j : in[k]
                   /\ (j = Len(s) \/ ~in[j + 1])
  IN [k \in 1..Cardinality(starts) |-> SubSeq(s, Ascending(starts)[k], stop(Ascending(starts)[k]))]

\* String.prototype.match(/\d+/g): the maximal runs of digits, left to right
\* (the empty sequence stands for null)
DigitRuns(s) == Runs(s, [i \in 1..Len(s) |-> IsDigit(s[i])])

\* rgbMatch.map(Number)[i], 0-based as in the destructuring; undefined / 255
\* and undefined itself both reach setFloat32 as NaN
MatchedNumber(s, i) ==
  LET runs == DigitRuns(s)
  IN IF i < Len(runs) THEN DigitsValue(runs[i + 1]) ELSE NaN

\* ----------------------------------------------------------------- float32
Pow2(n) == 2 ^ n

\* scale num/den into [1, 2): the result is <<n, d, e>> with num/den = n/d * 2^e
RECURSIVE Normalise(_, _, _)
Normalise(n, d, e) ==
  IF n < d THEN Normalise(2 * n, d, e - 1)
  ELSE IF n >= 2 * d THEN Normalise(n, 2 * d, e + 1)
  ELSE <<n, d, e>>

\* long division: bits more bits of rem/d appended to the significand m
RECURSIVE Significand(_, _, _, _)
Significand(rem, d, m, bits) ==
  IF bits = 0 THEN <<m, rem>>
  ELSE IF 2 * rem >= d THEN Significand(2 * rem - d, d, 2 * m + 1, bits - 1)
  ELSE Significand(2 * rem, d, 2 * m, bits - 1)

\* the four big-endian bytes DataView.setFloat32 stores for biased exponent
\* e and 24-bit significand m
Float32Word(e, m) ==
  LET frac == m - Pow2(23)
  IN <<e \div 2, ((e % 2) * 128) + (frac \div 65536), (frac \div 256) % 256, frac % 256>>

\* DataView.setFloat32(offset, num / den, false) for num >= 0: the quotient
\* rounded to the nearest float32, ties to even
Float32Bytes(num, den) ==
  IF num = NaN THEN <<127, 192, 0, 0>>
  ELSE IF num = 0 THEN <<0, 0, 0, 0>>
  ELSE LET nde == Normalise(num, den, 0)
           mr == Significand(nde[1] - nde[2], nde[2], 1, 23)
           up == 2 * mr[2] > nde[2] \/ (2 * mr[2] = nde[2] /\ mr[1] % 2 = 1)
           m == IF up THEN mr[1] + 1 ELSE mr[1]
       IN IF m = Pow2(24) THEN Float32Word(nde[3] + 128, Pow2(23))
          ELSE Float32Word(nde[3] + 127, m)

Float32Exp(b) == ((b[1] % 128) * 2) + (b[2] \div 128)
Float32Sig(b) == Pow2(23) + ((b[2] % 128) * 65536) + (b[3] * 256) + b[4]
Float32IsNaN(b) == Float32Exp(b) = 255 /\ Float32Sig(b) # Pow2(23)
Float32IsZero(b) == b[1] % 128 = 0 /\ b[2] = 0 /\ b[3] = 0 /\ b[4] = 0

\* Math.round(getFloat32(..) * 255) for a float32 that is NaN or in [0, 2^15):
\* with sig = hi * 256 + lo the product is (hi * 255 * 256 + lo * 255) / 2^k,
\* k = 150 - exponent, and Math.round adds one half and takes the floor
RoundTimes255(b) ==
  IF Float32IsNaN(b) THEN NaN
  ELSE CASE b[1] < 128 /\ Float32Exp(b) < 112 -> 0
         [] b[1] < 128 /\ Float32Exp(b) \in 112..141 ->
              LET k == 150 - Float32Exp(b)
                  hi == Float32Sig(b) \div 256
                  lo == Float32Sig(b) % 256
              IN ((hi * 255) + ((lo * 255) \div 256) + Pow2(k - 9)) \div Pow2(k - 8)

\* the float32 as a JavaScript number, for the values that are NaN, zero or
\* a positive integer
Float32Integer(b) ==
  IF Float32IsNaN(b) THEN NaN
  ELSE CASE Float32IsZero(b) -> 0
         [] b[1] < 128 /\ Float32Exp(b) \in 127..150
            /\ Float32Sig(b) % Pow2(150 - Float32Exp(b)) = 0 ->
              Float32Sig(b) \div Pow2(150 - Float32Exp(b))

\* ------------------------------------------------------------ byte buffers
Zeros(n) == [i \in 1..n |-> 0]
Uint16Bytes(v) == <<(v \div 256) % 256, v % 256>>
Uint32Bytes(v) == <<(v \div 16777216) % 256, (v \div 65536) % 256, (v \div 256) % 256, v % 256>>

\* a DataView or typed-array access of n bytes at offset is in range
InRange(buffer, offset, n) == offset >= 0 /\ offset + n <= Len(buffer)
BytesAt(buffer, offset, n) == SubSeq(buffer, offset + 1, offset + n)
getUint16(buffer, offset) == buffer[offset + 1] * 256 + buffer[offset + 2]
\* a value of 2^30 or more is kept as 2^30: every such value differs from 40
\* and points past the end of every buffer of the model
getUint32(buffer, offset) ==
  IF buffer[offset + 1] >= 64 THEN Pow2(30)
  ELSE buffer[offset + 1] * 16777216 + buffer[offset + 2] * 65536
       + buffer[offset + 3] * 256 + buffer[offset + 4]

\* TextEncoder.encode: UTF-8 of a string without surrogates
Utf8Unit(c) ==
  IF c < 128 THEN <<c>>
  ELSE IF c < 2048 THEN <<192 + (c \div 64), 128 + (c % 64)>>
  ELSE <<224 + (c \div 4096), 128 + ((c \div 64) % 64), 128 + (c % 64)>>
Utf8(s) == Concat([i \in 1..Len(s) |-> Utf8Unit(s[i])])

\* TextDecoder('utf-16be').decode of an even number of bytes; a surrogate
\* code unit, which the modelled buffers never pair up, decodes to U+FFFD
Utf16beUnits(bytes) ==
  [i \in 1..(Len(bytes) \div 2) |->
     LET c == (bytes[(2 * i) - 1] * 256) + bytes[2 * i]
     IN IF c \in 55296..57343 THEN 65533 ELSE c]
\* the decoder drops a leading byte order mark
Utf16beDecode(bytes) ==
  LET units == Utf16beUnits(bytes)
  IN IF units # <<>> /\ units[1] = 65279 THEN Tail(units) ELSE units

\* String.prototype.replace(/\0/g, '')
NotNul(c) == c # 0
WithoutNul(s) == SelectSeq(s, NotNul)

\* --------------------------- saveASEPalette (ColorContext.tsx, lines 691-757)
\* a DataView write: the bytes go to buf at offset `at`, or the write throws
\* RangeError and `ok` turns false
Write(w, at, bytes) ==
  IF ~w.ok THEN w
  ELSE IF ~InRange(w.buf, at, Len(bytes)) THEN [w EXCEPT !.ok = FALSE]
  ELSE [w EXCEPT !.buf = [i \in 1..Len(w.buf) |->
                            IF i > at /\ i <= at + Len(bytes) THEN bytes[i - at] ELSE w.buf[i]]]

ColorName(color) == IF Has(color, "name") THEN color.name ELSE <<>>

\* the body of palette.forEach
saveASEColor(w, color) ==
  LET nameLength == Len(ColorName(color))
      w1 == Write(w, w.offset, Uint16Bytes(1))
      w2 == Write(w1, w.offset + 2, Uint32Bytes(40))
      w3 == Write(w2, w.offset + 6, Uint16Bytes(nameLength))
      w4 == Write(w3, w.offset + 8, Utf8(ColorName(color)))
      o5 == w.offset + 8 + nameLength * 2
      w5 == Write(w4, o5, <<82, 71, 66, 32>>)
      rgbMatch == DigitRuns(color.value) # <<>>
      w6 == IF rgbMatch
            THEN Write(w5, o5 + 4,
                       Float32Bytes(MatchedNumber(color.value, 0), 255)
                       \o Float32Bytes(MatchedNumber(color.value, 1), 255)
                       \o Float32Bytes(MatchedNumber(color.value, 2), 255)
                       \o Float32Bytes(MatchedNumber(color.value, 3), 1))
            ELSE w5
      o7 == IF rgbMatch THEN o5 + 20 ELSE o5 + 4
      w7 == Write(w6, o7, Uint16Bytes(0))
  IN [w7 EXCEPT !.offset = o7 + 2]

RECURSIVE saveASEColors(_, _)
saveASEColors(w, palette) ==
  IF palette = <<>> THEN w
  ELSE saveASEColors(saveASEColor(w, Head(palette)), Tail(palette))

\* the bytes of the Blob, or RangeError when a write falls outside the
\* 12 + 40 * N bytes allocated
saveASEResult(palette) ==
  LET w0 == [buf |-> Zeros(12 + Len(palette) * 40), offset |-> 0, ok |-> TRUE]
      w1 == Write(Write(Write(w0, 0, <<65, 83, 69, 70>>), 4, Uint32Bytes(1)),
                  8, Uint32Bytes(Len(palette)))
      w == saveASEColors([w1 EXCEPT !.offset = 12], palette)
  IN IF w.ok THEN [status |-> "done", bytes |-> w.buf] ELSE [status |-> RangeError]

\* --------------------------- loadASEPalette (ColorContext.tsx, lines 532-649)
\* Date.now().toString() + n, for the time of the import
DateId(n) == <<"now0", "now1", "now2", "now3", "now4", "now5", "now6", "now7">>[n + 1]
ColorN(n) == <<67, 111, 108, 111, 114, 32>> \o NumToChars(n)
RgbaString(r, g, b, a) ==
  <<114, 103, 98, 97, 40>> \o NumberToString(r) \o <<44, 32>> \o NumberToString(g)
  \o <<44, 32>> \o NumberToString(b) \o <<44, 32>> \o NumberToString(a) \o <<41>>

\* 255 * (1 - c) * (1 - k) rounded, for float32 values c and k that are 0 or 1
CmykChannel(c, k) ==
  CASE Float32Integer(c) = 0 /\ Float32Integer(k) = 0 -> 255
    [] Float32Integer(c) \in {0, 1} /\ Float32Integer(k) \in {0, 1}
       /\ (Float32Integer(c) = 1 \/ Float32Integer(k) = 1) -> 0

\* a colour entry block; o is the offset after the block header.  The result
\* is the decoder state after the block, or RangeError from the first read
\* that leaves the buffer.
loadASEColor(buffer, o, blockLength, d) ==
  LET nameLength == getUint16(buffer, o)
      o1 == o + 2
      decoded == WithoutNul(Utf16beDecode(BytesAt(buffer, o1, nameLength * 2)))
      name == IF decoded # <<>> THEN decoded ELSE ColorN(Len(d.palette) + 1)
      o2 == o1 + nameLength * 2
      colorModel == BytesAt(buffer, o2, 4)
      o3 == o2 + 4
      isRGB == colorModel = <<82, 71, 66, 32>>
      isCMYK == colorModel = <<67, 77, 89, 75>>
      floats == IF isRGB THEN (IF blockLength = 40 THEN 4 ELSE 3)
                ELSE IF isCMYK THEN 4 ELSE 0
      f(i) == BytesAt(buffer, o3 + 4 * i, 4)
      o4 == o3 + 4 * floats
      value == IF isRGB
               THEN RgbaString(RoundTimes255(f(0)), RoundTimes255(f(1)), RoundTimes255(f(2)),
                               IF blockLength = 40 THEN Float32Integer(f(3)) ELSE 1)
               ELSE RgbaString(CmykChannel(f(0), f(3)), CmykChannel(f(1), f(3)),
                               CmykChannel(f(2), f(3)), 1)
      newPalette == IF isRGB \/ isCMYK
                    THEN Append(d.palette, [id |-> DateId(Len(d.palette)),
                                            value |-> value, name |-> name])
                    ELSE d.palette
  IN IF /\ InRange(buffer, o, 2) /\ InRange(buffer, o1, nameLength * 2)
        /\ InRange(buffer, o2, 4) /\ InRange(buffer, o3, 4 * floats)
        /\ InRange(buffer, o4, 2)
     THEN [offset |-> o4 + 2, palette |-> newPalette, status |-> "run"]
     ELSE [d EXCEPT !.status = RangeError]

\* one pass of the while loop, from the block header at d.offset
loadASEBlock(buffer, d) ==
  IF ~InRange(buffer, d.offset, 6) THEN [d EXCEPT !.status = RangeError]
  ELSE LET blockType == getUint16(buffer, d.offset)
           blockLength == getUint32(buffer, d.offset + 2)
           o == d.offset + 6
       IN IF blockType = 1 THEN loadASEColor(buffer, o, blockLength, d)
          ELSE IF blockType = 49153
          THEN (IF InRange(buffer, o, 2) /\ InRange(buffer, o + 2, getUint16(buffer, o) * 2)
                THEN [d EXCEPT !.offset = o + 2 + getUint16(buffer, o) * 2]
                ELSE [d EXCEPT !.status = RangeError])
          ELSE IF blockType = 49154 THEN [d EXCEPT !.offset = o]
          ELSE IF blockType = 0 THEN [d EXCEPT !.offset = o, !.status = "done"]
          ELSE IF blockLength = 0 THEN [d EXCEPT !.status = "hang"]
          ELSE [d EXCEPT !.offset = o + blockLength - 6]

\* the while loop; an unknown block of declared length 0 moves the offset
\* back to the block's own header and the loop never ends ("hang")
RECURSIVE loadASEBlocks(_, _)
loadASEBlocks(buffer, d) ==
  IF d.status # "run" THEN d
  ELSE IF ~(d.offset < Len(buffer)) THEN [d EXCEPT !.status = "done"]
  ELSE loadASEBlocks(buffer, loadASEBlock(buffer, d))

\* a decoder that reads the blocks without testing the signature
loadASEUnchecked(buffer) ==
  LET d == loadASEBlocks(buffer, [offset |-> 12, palette |-> <<>>, status |-> "run"])
  IN [status |-> d.status, palette |-> d.palette]

\* the outcome of loadASEPalette: [status |-> "done", palette |-> ...] when
\* the loop ends, else the error
loadASEResult(buffer) ==
  IF ~InRange(buffer, 0, 4) THEN [status |-> RangeError, palette |-> <<>>]
  ELSE IF BytesAt(buffer, 0, 4) # <<65, 83, 69, 70>>
  THEN [status |-> "Invalid ASE file signature", palette |-> <<>>]
  ELSE IF ~InRange(buffer, 4, 8) THEN [status |-> RangeError, palette |-> <<>>]
  ELSE LET d == loadASEBlocks(buffer, [offset |-> 12, palette |-> <<>>, status |-> "run"])
       IN IF d.status = "done" /\ d.palette = <<>>
          THEN [status |-> "No valid colors found in the ASE file", palette |-> <<>>]
          ELSE [status |-> d.status, palette |-> d.palette]

\* TextDecoder.decode / Blob.text(): UTF-8 of one to three bytes; a byte that
\* is in no such sequence decodes to U+FFFD (four-byte sequences and
\* truncated sequences, decoded otherwise by the browser, are in no modelled
\* file)
Utf8Lead2(b, i) == b[i] \in 194..223 /\ i + 1 <= Len(b) /\ b[i + 1] \in 128..191
Utf8Lead3(b, i) ==
  /\ b[i] \in 224..239 /\ i + 2 <= Len(b) /\ b[i + 1] \in 128..191 /\ b[i + 2] \in 128..191
  /\ (b[i] > 224 \/ b[i + 1] >= 160) /\ (b[i] # 237 \/ b[i + 1] < 160)
Utf8Decode(b) ==
  Concat([i \in 1..Len(b) |->
    IF b[i] < 128 THEN <<b[i]>>
    ELSE IF Utf8Lead2(b, i) THEN <<((b[i] - 192) * 64) + (b[i + 1] - 128)>>
    ELSE IF Utf8Lead3(b, i)
    THEN <<((b[i] - 224) * 4096) + ((b[i + 1] - 128) * 64) + (b[i + 2] - 128)>>
    ELSE IF \/ (i > 1 /\ (Utf8Lead2(b, i - 1) \/ Utf8Lead3(b, i - 1)))
            \/ (i > 2 /\ Utf8Lead3(b, i - 2))
    THEN <<>>
    ELSE <<65533>>])

\* String.prototype.split(/\r\n|\n|\r/): the text between line breaks; a
\* line feed that follows a carriage return belongs to the same break
SplitLines(s) ==
  LET breaks == {i \in 1..Len(s) : s[i] = 13 \/ (s[i] = 10 /\ (i = 1 \/ s[i - 1] # 13))}
      after(i) == IF s[i] = 13 /\ i < Len(s) /\ s[i + 1] = 10 THEN i + 2 ELSE i + 1
      at == Ascending(breaks)
  IN [k \in 1..(Cardinality(breaks) + 1) |->
        SubSeq(s, IF k = 1 THEN 1 ELSE after(at[k - 1]),
                  IF k > Cardinality(breaks) THEN Len(s) ELSE at[k] - 1)]

Trim(s) ==
  LET solid == {i \in 1..Len(s) : ~IsSpace(s[i])}
  IN IF solid = {} THEN <<>>
     ELSE SubSeq(s, CHOOSE i \in solid : \A j \in solid : i <= j,
                    CHOOSE i \in solid : \A j \in solid : j <= i)

\* String.prototype.split(/\s+/) of a trimmed string
SplitSpaces(s) ==
  IF s = <<>> THEN << <<>> >> ELSE Runs(s, [i \in 1..Len(s) |-> ~IsSpace(s[i])])

\* Array.prototype.join(' ')
JoinSpace(parts) ==
  Concat([k \in 1..Len(parts) |-> IF k = 1 THEN parts[1] ELSE <<32>> \o parts[k]])

\* --------------------------- saveGPLPalette (ColorContext.tsx, lines 759-775)
TypeError == "TypeError"

\* 'GIMP Palette'
GimpPalette ==
  <<71, 73, 77, 80, 32, 80, 97, 108, 101, 116, 116, 101>>
\* 'GIMP Palette\n# Generated by Your App Name\n# Palette Name: Custom Palette\n# Colors: '
GplHeading ==
  <<71, 73, 77, 80, 32, 80, 97, 108, 101, 116, 116, 101, 10, 35, 32, 71, 101,
    110, 101, 114, 97, 116, 101, 100, 32, 98, 121, 32, 89, 111, 117, 114, 32,
    65, 112, 112, 32, 78, 97, 109, 101, 10, 35, 32, 80, 97, 108, 101, 116,
    116, 101, 32, 78, 97, 109, 101, 58, 32, 67, 117, 115, 116, 111, 109, 32,
    80, 97, 108, 101, 116, 116, 101, 10, 35, 32, 67, 111, 108, 111, 114, 115,
    58, 32>>

\* String.prototype.padStart(3)
PadStart3(s) == IF Len(s) >= 3 THEN s ELSE [i \in 1..(3 - Len(s)) |-> 32] \o s
\* n.toFixed(2) of an integer
ToFixed2(n) == NumToChars(n) \o <<46, 48, 48>>

\* with one to three runs of digits in the value a channel is undefined and
\* its toString or toFixed throws TypeError
saveGPLThrows(color) == Len(DigitRuns(color.value)) \in 1..3

\* the line written for one colour: nothing without a run of digits
saveGPLColor(color) ==
  LET runs == DigitRuns(color.value)
  IN IF runs = <<>> THEN <<>>
     ELSE PadStart3(NumToChars(DigitsValue(runs[1]))) \o <<32>>
          \o PadStart3(NumToChars(DigitsValue(runs[2]))) \o <<32>>
          \o PadStart3(NumToChars(DigitsValue(runs[3]))) \o <<32>>
          \o ToFixed2(DigitsValue(runs[4])) \o <<32, 32, 32, 32>>
          \o ColorName(color) \o <<10>>

saveGPLColors(palette) == Concat([i \in 1..Len(palette) |-> saveGPLColor(palette[i])])

\* the bytes of the Blob, or TypeError
saveGPLResult(palette) ==
  IF \E i \in 1..Len(palette) : saveGPLThrows(palette[i]) THEN [status |-> TypeError]
  ELSE [status |-> "done",
        bytes |-> Utf8(GplHeading \o NumToChars(Len(palette)) \o <<10>> \o saveGPLColors(palette))]

\* --------------------------- loadGPLPalette (ColorContext.tsx, lines 651-689)
\* the loop over lines[1..]; u is the number of uuids handed out before
RECURSIVE loadGPLLines(_, _, _)
loadGPLLines(lines, palette, u) ==
  IF lines = <<>> THEN palette
  ELSE LET line == Trim(Head(lines))
           parts == SplitSpaces(line)
           r == Number(parts[1])
           g == Number(parts[2])
           b == Number(parts[3])
           name == IF Len(parts) > 3 THEN JoinSpace(SubSeq(parts, 4, Len(parts)))
                   ELSE ColorN(Len(palette) + 1)
           push == /\ line # <<>> /\ line[1] # 35 /\ Len(parts) >= 3
                   /\ r # NaN /\ g # NaN /\ b # NaN
       IN loadGPLLines(Tail(lines),
                       IF push
                       THEN Append(palette, [id |-> UuidPool[u + Len(palette) + 1],
                                             value |-> RgbaString(r, g, b, 1),
                                             name |-> name])
                       ELSE palette,
                       u)

loadGPLResult(body, u) ==
  LET lines == SplitLines(Utf8Decode(body))
  IN IF Trim(lines[1]) # GimpPalette
     THEN [status |-> "Invalid GPL file format", palette |-> <<>>]
     ELSE LET newPalette == loadGPLLines(Tail(lines), <<>>, u)
          IN IF newPalette = <<>>
             THEN [status |-> "No valid colors found in the GPL file", palette |-> <<>>]
             ELSE [status |-> "done", palette |-> newPalette]

\* --------------------------------- loadPalette of unnamed/part_014, 178-254
\* String.prototype.split(sep) for a separator of one code unit
SplitOn(s, sep) ==
  LET cuts == Ascending({i \in 1..Len(s) : s[i] = sep})
  IN [k \in 1..(Len(cuts) + 1) |->
        SubSeq(s, IF k = 1 THEN 1 ELSE cuts[k - 1] + 1,
                  IF k > Len(cuts) THEN Len(s) ELSE cuts[k] - 1)]

\* 'undefined'
Undefined == <<117, 110, 100, 101, 102, 105, 110, 101, 100>>
\* 'Untitled'
Untitled == <<85, 110, 116, 105, 116, 108, 101, 100>>

\* loadASEPalette (229-238): every line that is not blank is a colour named by
\* the line; line.split('\n')[1] is undefined, so the value is the default
loadASEPalette14(buffer, u) ==
  LET all == SplitOn(Utf8Decode(buffer), 10)
      lines == Filter(all, [l \in Range(all) |-> Trim(l) # <<>>])
  IN [k \in 1..Len(lines) |->
        [id |-> UuidPool[u + k], name |-> lines[k],
         value |-> <<114, 103, 98, 97, 40, 48, 44, 48, 44, 48, 44, 49, 41>>]]

\* loadGPLPalette (240-254): every line that is neither blank nor a comment,
\* split at single spaces
loadGPLPalette14(buffer, u) ==
  LET all == SplitOn(Utf8Decode(buffer), 10)
      lines == Filter(all, [l \in Range(all) |-> Trim(l) # <<>> /\ l[1] # 35])
      part(l, i) == IF i <= Len(SplitOn(l, 32)) THEN SplitOn(l, 32)[i] ELSE Undefined
      nameOf(l) == IF Len(SplitOn(l, 32)) > 3 /\ JoinSpace(SubSeq(SplitOn(l, 32), 4, Len(SplitOn(l, 32)))) # <<>>
                   THEN JoinSpace(SubSeq(SplitOn(l, 32), 4, Len(SplitOn(l, 32))))
                   ELSE Untitled
  IN [k \in 1..Len(lines) |->
        [id |-> UuidPool[u + k], name |-> nameOf(lines[k]),
         value |-> <<114, 103, 98, 97, 40>> \o part(lines[k], 1) \o <<44>>
                   \o part(lines[k], 2) \o <<44>> \o part(lines[k], 3) \o <<44, 49, 41>>]]

\* ------------------------------------------------- palettes and files offered
Rgba1(r, g, b) == RgbaString(r, g, b, 1)
\* names 'Sky', 'Ab', 'Indigo', 'Red'
NameSky == <<83, 107, 121>>
NameAb == <<65, 98>>
NameIndigo == <<73, 110, 100, 105, 103, 111>>
NameRed == <<82, 101, 100>>

PalSky == <<[id |-> "c1", value |-> Rgba1(0, 128, 255), name |-> NameSky]>>
PalPair ==
  <<[id |-> "c1", value |-> Rgba1(0, 0, 0)],
    [id |-> "c2", value |-> Rgba1(255, 255, 255), name |-> NameAb]>>
PalLong == <<[id |-> "c1", value |-> Rgba1(255, 0, 0), name |-> NameIndigo]>>
PaletteArgs == {PalSky, PalPair, PalLong}

\* a file in the layout of the swatch exchange format: 'ASEF', version 1.0,
\* the number of blocks, then the blocks; a colour block holds the length of
\* the name with its terminating zero, the name in UTF-16BE, the colour model,
\* three float32 channels and the colour type, and declares the length of
\* this body
AseName(name) == Concat([i \in 1..Len(name) |-> Uint16Bytes(name[i])]) \o <<0, 0>>
AseColorBlock(name, r, g, b) ==
  <<0, 1>> \o Uint32Bytes(2 + Len(AseName(name)) + 4 + 12 + 2)
  \o Uint16Bytes(Len(name) + 1) \o AseName(name) \o <<82, 71, 66, 32>>
  \o Float32Bytes(r, 255) \o Float32Bytes(g, 255) \o Float32Bytes(b, 255) \o <<0, 2>>
AseHeader(blocks) == <<65, 83, 69, 70, 0, 1, 0, 0>> \o Uint32Bytes(blocks)
AseBlockSky == AseColorBlock(NameSky, 0, 128, 255)
AseBlockRed == AseColorBlock(NameRed, 255, 0, 0)
\* a block with a tag the decoder does not know and a body of n zero bytes
AseUnknownBlock(n) == <<18, 52>> \o Uint32Bytes(n) \o Zeros(n)

AseFile(body) == [extension |-> "ase", body |-> body]
GplFile(body) == [extension |-> "gpl", body |-> body]

AseTwo == AseFile(AseHeader(2) \o AseBlockSky \o AseBlockRed)

AseUnknown(n) == AseFile(AseHeader(3) \o AseBlockSky \o AseUnknownBlock(n) \o AseBlockRed)
\* AseTwo cut in the middle of the name of its second block
AseTruncated == AseFile(SubSeq(AseTwo.body, 1, 12 + Len(AseBlockSky) + 11))
AseBadSignature == AseFile(<<65, 83, 69, 32, 0, 1, 0, 0>> \o Uint32Bytes(1) \o AseBlockSky)
AseEmpty == AseFile(AseHeader(0))
\* 'GIMP Palette\n# sky\n  0 128 255 Sky\n'
GplSky == GplFile(<<71, 73, 77, 80, 32, 80, 97, 108, 101, 116, 116, 101, 10, 35, 32, 115, 107, 121, 10, 32, 32, 48, 32, 49, 50, 56, 32, 50, 53, 53, 32, 83, 107, 121, 10>>)
\* 'JASC-PAL\n  0 128 255 Sky\n'
GplBadHeader == GplFile(<<74, 65, 83, 67, 45, 80, 65, 76, 10, 32, 32, 48, 32, 49, 50, 56, 32, 50, 53, 53, 32, 83, 107, 121, 10>>)
\* 'GIMP Palette\n# empty\n'
GplEmpty == GplFile(<<71, 73, 77, 80, 32, 80, 97, 108, 101, 116, 116, 101, 10, 35, 32, 101, 109, 112, 116, 121, 10>>)
PngFile == [extension |-> "png", body |-> <<137, 80, 78, 71>>]
UnknownBlockLengths == {0, 6, 8}
PaletteFiles ==
  {AseTwo, AseTruncated, AseBadSignature, AseEmpty, GplSky, GplBadHeader, GplEmpty, PngFile}
  \cup {AseUnknown(n) : n \in UnknownBlockLengths}

PaletteFiles14 == {AseTwo, GplSky, PngFile}

\* save files whose palette colours are spelled out as code units
ExtV2Units ==
  [version |-> "0.2", id |-> "x1", name |-> "ext", width |-> 4, height |-> 4,
   layers |-> <<ExtLayer("k1", TRUE)>>, activeLayerId |-> "k1", palette |-> PalPair]
ExtV3Units ==
  [version |-> "0.3", id |-> "x1", name |-> "ext", width |-> 4, height |-> 4,
   layers |-> <<ExtLayer("k1", TRUE)>>, activeLayerId |-> "k1", palette |-> PalSky,
   selectedColorId |-> "c1"]

\* ===== palette import and export of the second ColorProvider (ColorContext.tsx)
\* prev => ({...prev, [fileId]: {...prev[fileId], palette: newPalette}})
WithPalette(fileId, newPalette) ==
  Put(fileColorStates, fileId,
      Put(IF Has(fileColorStates, fileId) THEN fileColorStates[fileId] ELSE EmptyMap,
          "palette", newPalette))

\* fileColorStates[fileId]?.palette || []
PaletteOf(fileId) ==
  IF Has(fileColorStates, fileId) /\ Has(fileColorStates[fileId], "palette")
  THEN fileColorStates[fileId].palette ELSE <<>>

reorderPalette(fileId, newPalette) ==
  /\ Alive
  /\ fileColorStates' = WithPalette(fileId, newPalette)
  /\ error' = "none"
  /\ lastOp' = [op |-> "reorderPalette"]
  /\ UNCHANGED <<uuids, layerVars, fileVars, layoutFiles, layoutActiveFileId>>

\* loadPalette with the decoder it dispatches to
loadPaletteResult(file, u) ==
  IF file.extension = "ase" THEN loadASEResult(file.body)
  ELSE IF file.extension = "gpl" THEN loadGPLResult(file.body, u)
  ELSE [status |-> "Unsupported file format", palette |-> <<>>]

\* the text decoder draws one uuid for each colour it pushes
loadPaletteUuids(file, u) ==
  IF file.extension = "gpl" THEN Len(loadGPLResult(file.body, u).palette) ELSE 0

\* a rejected promise leaves the state alone; a loop that never ends leaves
\* the page unresponsive
loadPalette(fileId, file) ==
  /\ Alive
  /\ uuids + loadPaletteUuids(file, uuids) <= MaxUuid
  /\ uuids' = uuids + loadPaletteUuids(file, uuids)
  /\ LET r == loadPaletteResult(file, uuids)
     IN /\ fileColorStates' = IF r.status = "done" THEN WithPalette(fileId, r.palette)
                              ELSE fileColorStates
        /\ error' = IF r.status = "done" THEN "none" ELSE r.status
  /\ lastOp' = [op |-> "loadPalette"]
  /\ UNCHANGED <<layerVars, fileVars, layoutFiles, layoutActiveFileId>>

\* handleSaveASEPalette / handleSaveGPLPalette of unnamed/part_010: the Blob is
\* offered as a download; an exception of the encoder ends the click handler
savePalette(opName, palette, r, download) ==
  /\ Alive
  /\ lastOp' = IF r.status = "done"
               THEN [op |-> opName, palette |-> palette, download |-> download, blob |-> r.bytes]
               ELSE [op |-> opName, palette |-> palette]
  /\ error' = IF r.status = "done" THEN "none" ELSE r.status
  /\ UNCHANGED <<uuids, layerVars, fileVars, colorVars>>

saveASEPalette(fileId) ==
  savePalette("saveASEPalette", PaletteOf(fileId), saveASEResult(PaletteOf(fileId)), "palette.ase")

saveGPLPalette(fileId) ==
  savePalette("saveGPLPalette", PaletteOf(fileId), saveGPLResult(PaletteOf(fileId)), "palette.gpl")

\* ============================ palette import of unnamed/part_014 (178-199)
loadPaletteResult14(file, u) ==
  IF file.extension = "ase" THEN [status |-> "done", palette |-> loadASEPalette14(file.body, u)]
  ELSE IF file.extension = "gpl" THEN [status |-> "done", palette |-> loadGPLPalette14(file.body, u)]
  ELSE [status |-> "Unsupported file format", palette |-> <<>>]

\* the updater spreads prev[fileId].palette, which throws for an id without a
\* stored palette
loadPalette14(fileId, file) ==
  LET r == loadPaletteResult14(file, uuids)
  IN IF r.status # "done"
     THEN /\ Alive
          /\ error' = r.status
          /\ lastOp' = [op |-> "loadPalette14"]
          /\ UNCHANGED <<uuids, layerVars, fileVars, colorVars>>
     ELSE IF ~Has(fileColorStates, fileId) \/ ~Has(fileColorStates[fileId], "palette")
     THEN Alive /\ Crash("loadPalette14")
     ELSE /\ Alive
          /\ uuids + Len(r.palette) <= MaxUuid
          /\ uuids' = uuids + Len(r.palette)
          /\ fileColorStates' = WithPalette(fileId, fileColorStates[fileId].palette \o r.palette)
          /\ error' = "none"
          /\ lastOp' = [op |-> "loadPalette14"]
          /\ UNCHANGED <<layerVars, fileVars, layoutFiles, layoutActiveFileId>>

\* ------------------------------------------------------------------------
\* SpecPalette: documents opened from save files, and the palette operations
\* of ColorContext.tsx (second provider) and of unnamed/part_014 on them
\* the file offered to loadPalette: one of PaletteFiles, or the last download
\* when it was made of one of PaletteArgs
ReImport ==
  IF Has(lastOp, "blob") /\ lastOp.palette \in PaletteArgs
  THEN {[extension |-> IF lastOp.op = "saveASEPalette" THEN "ase" ELSE "gpl",
         body |-> lastOp.blob]}
  ELSE {}

NextPalette ==
  \/ \E d \in {ExtV2Units, Malformed} : handleLoadFile(d) /\ UNCHANGED uiVars
  \/ \E d \in {ExtV3Units, ExtFuture} : handleLoadFile14(d) /\ UNCHANGED uiVars
  \/ \E f \in LayoutFileIds : handleCloseFile(f) /\ UNCHANGED uiVars
  \/ \E f \in LayoutFileIds : \E p \in PaletteArgs : reorderPalette(f, p) /\ UNCHANGED uiVars
  \/ \E f \in LayoutFileIds : \E file \in PaletteFiles \cup ReImport : loadPalette(f, file) /\ UNCHANGED uiVars
  \/ \E f \in LayoutFileIds : \E file \in PaletteFiles14 : loadPalette14(f, file) /\ UNCHANGED uiVars
  \/ \E f \in LayoutFileIds : saveASEPalette(f) /\ UNCHANGED uiVars
  \/ \E f \in LayoutFileIds : saveGPLPalette(f) /\ UNCHANGED uiVars

SpecPalette == Init /\ [][NextPalette]_vars

\* ========================= the Canvas components: unnamed/part_006, 007, 008
\* ctx.drawImage of a bitmap whose pixels are opaque or clear (source-over)
drawImage(ctx, img) == [p \in Pixels |-> IF img[p] # "clear" THEN img[p] ELSE ctx[p]]

\* drawCheckerboard (part_006, 246-259): white, then grey on the tiles whose
\* column and row numbers have an even sum
drawCheckerboard ==
  [p \in Pixels |->
     IF ((p[1] \div tileSize) + (p[2] \div tileSize)) % 2 = 0 THEN "#e0e0e0" ELSE "#ffffff"]

\* the forEach of compositeCanvas over the reversed layer list: layers i..1,
\* the visible ones that have an off-screen canvas
RECURSIVE compositeLayers(_, _, _, _)
compositeLayers(ctx, layers, offScreen, i) ==
  IF i = 0 THEN ctx
  ELSE compositeLayers(
         IF layers[i].isVisible /\ Has(offScreen, layers[i].id)
         THEN drawImage(ctx, offScreen[layers[i].id]) ELSE ctx,
         layers, offScreen, i - 1)

\* compositeCanvas (part_006, 110-138): clear, checkerboard, layers
compositeCanvas(layers, offScreen) ==
  compositeLayers(drawCheckerboard, layers, offScreen, Len(layers))

CanvasStep(opName) ==
  /\ error' = "none"
  /\ lastOp' = [op |-> opName]
  /\ UNCHANGED <<uuids, layerVars, fileVars, colorVars, selectedIndex>>

\* the effect of part_006 (139-163): an off-screen canvas and an image load
\* for every layer, then a first composite
CanvasEffect06(fileId) ==
  /\ Alive
  /\ canvas.component = "none"
  /\ Has(fileColorStates, fileId) /\ Has(fileColorStates[fileId], "layers")
  /\ LET layers == fileColorStates[fileId].layers
         offScreen == [id \in LayerIdsOf(layers) |-> Blank]
     IN canvas' = [component |-> "part_006", layers |-> layers, offScreen |-> offScreen,
                   pending |-> 1..Len(layers),
                   composite |-> compositeCanvas(layers, offScreen)]
  /\ CanvasStep("CanvasEffect06")

\* img.onload of part_006 (154-158) for the image of layer k
ImageLoaded06(k) ==
  /\ Alive
  /\ canvas.component = "part_006"
  /\ k \in canvas.pending
  /\ LET layer == canvas.layers[k]
         offScreen == Put(canvas.offScreen, layer.id, drawImage(Blank, layer.canvasData.px))
     IN canvas' = [canvas EXCEPT !.offScreen = offScreen,
                                 !.pending = canvas.pending \ {k},
                                 !.composite = compositeCanvas(canvas.layers, offScreen)]
  /\ CanvasStep("ImageLoaded06")

\* drawLayers of part_007 (18-30) and of part_008 (18-45): clear the canvas
\* and start an image load for every visible layer, in storage order
drawLayersStart(component, layers) ==
  canvas' = [component |-> component, layers |-> layers, offScreen |-> EmptyMap,
             pending |-> {k \in 1..Len(layers) : layers[k].isVisible},
             composite |-> Blank]

drawLayers07(fileId) ==
  /\ Alive
  /\ canvas.component = "none"
  /\ Has(fileColorStates, fileId) /\ Has(fileColorStates[fileId], "layers")
  /\ drawLayersStart("part_007", fileColorStates[fileId].layers)
  /\ CanvasStep("drawLayers07")

\* part_008 reads the layers of LayerContext and returns early without any
drawLayers08(fileId) ==
  /\ Alive
  /\ canvas.component = "none"
  /\ Len(getLayers(fileId)) > 0
  /\ drawLayersStart("part_008", getLayers(fileId))
  /\ CanvasStep("drawLayers08")

\* img.onload of drawLayers for the image of layer k: the images finish
\* decoding in any order, and each is drawn when it does
ImageLoaded(k) ==
  /\ Alive
  /\ canvas.component \in {"part_007", "part_008"}
  /\ k \in canvas.pending
  /\ canvas' = [canvas EXCEPT !.pending = canvas.pending \ {k},
                              !.composite = drawImage(canvas.composite,
                                                      canvas.layers[k].canvasData.px)]
  /\ CanvasStep("ImageLoaded")

\* the effect of part_007 (39-58) or part_008 (47-63) runs again, for a new
\* zoom, over the same layers once the images of the first run have loaded;
\* the composite of the first run is kept as `earlier`
drawLayersAgain ==
  /\ Alive
  /\ canvas.component \in {"part_007", "part_008"}
  /\ canvas.pending = {}
  /\ ~Has(canvas, "earlier")
  /\ canvas' = [component |-> canvas.component, layers |-> canvas.layers,
                offScreen |-> EmptyMap,
                pending |-> {k \in 1..Len(canvas.layers) : canvas.layers[k].isVisible},
                composite |-> Blank, earlier |-> canvas.composite]
  /\ CanvasStep("drawLayersAgain")

\* ctx.fillRect(x, y, 1, 1): the canvas clips what falls outside of it
fillRect(bitmap, point, colour) ==
  [q \in Pixels |-> IF q = point THEN colour ELSE bitmap[q]]

\* updateLayerData of the second ColorProvider (ColorContext.tsx 990-1004)
updateLayerDataCC(s, fileId, layerId, data) ==
  IF ~Has(s, fileId) THEN s
  ELSE Put(s, fileId, Put(s[fileId], "layers",
         [k \in 1..Len(s[fileId].layers) |->
            IF s[fileId].layers[k].id = layerId
            THEN Put(s[fileId].layers[k], "canvasData", data)
            ELSE s[fileId].layers[k]]))

\* the image loads of earlier runs of the effect that have not finished
StaleLoads == IF Has(canvas, "stale") THEN canvas.stale ELSE {}
\* the number of draws since the component mounted
Draws == IF Has(canvas, "draws") THEN canvas.draws ELSE 0

\* the image loads of the last run of the effect that have not finished, each
\* with what its onload closure composites: the ids and the visibility of the
\* layers of its render
PendingLoads(fileId) ==
  {[fileId |-> fileId, id |-> canvas.layers[k].id, px |-> canvas.layers[k].canvasData.px,
    layers |-> [j \in 1..Len(canvas.layers) |->
                  [id |-> canvas.layers[j].id, isVisible |-> canvas.layers[j].isVisible]]] :
     k \in canvas.pending}

\* draw of part_006 (167-185) at the pixel the mouse event gives, and the
\* effect (139-163) that runs again because the colour state is a new object:
\* it keeps the off-screen canvases and starts an image load for every layer
draw(fileId, point) ==
  /\ Alive
  /\ canvas.component = "part_006"
  /\ Draws < MaxDraws
  /\ Has(fileColorStates, fileId)
  /\ Field(fileColorStates, fileId, "activeLayerId") \notin {Null, ""}
  /\ \E k \in 1..Len(fileColorStates[fileId].layers) :
       fileColorStates[fileId].layers[k].id = fileColorStates[fileId].activeLayerId
  /\ Has(canvas.offScreen, fileColorStates[fileId].activeLayerId)
  /\ LET id == fileColorStates[fileId].activeLayerId
         colour == IF Field(fileColorStates, fileId, "currentColor") \notin {Null, ""}
                   THEN fileColorStates[fileId].currentColor ELSE "black"
         offScreen == Put(canvas.offScreen, id, fillRect(canvas.offScreen[id], point, colour))
         data == [w |-> 2 * tileSize, h |-> 1, px |-> offScreen[id]]
         stored == updateLayerDataCC(fileColorStates, fileId, id, data)
         layers == stored[fileId].layers
         created == [l \in LayerIdsOf(layers) |->
                       IF Has(offScreen, l) THEN offScreen[l] ELSE Blank]
     IN /\ fileColorStates' = stored
        /\ canvas' = [component |-> "part_006", layers |-> layers, offScreen |-> created,
                      pending |-> 1..Len(layers),
                      composite |-> compositeCanvas(layers, created),
                      draws |-> Draws + 1,
                      stale |-> StaleLoads \cup PendingLoads(fileId)]
  /\ error' = "none"
  /\ lastOp' = [op |-> "draw", point |-> point]
  /\ UNCHANGED <<uuids, layerVars, fileVars, layoutFiles, layoutActiveFileId, selectedIndex>>

\* img.onload of an image that an earlier run of the effect started: it
\* redraws the off-screen canvas it holds and calls the compositeCanvas of its
\* own render, which reads the layers of that render and returns early when
\* the display canvas is gone
StaleImageLoaded06(load) ==
  /\ Alive
  /\ canvas.component \in {"part_006", "none"}
  /\ load \in StaleLoads
  /\ LET offScreen == Put(canvas.offScreen, load.id, drawImage(Blank, load.px))
     IN canvas' = [canvas EXCEPT !.offScreen = offScreen,
                                 !.stale = canvas.stale \ {load},
                                 !.composite = IF canvas.component = "none"
                                               THEN canvas.composite
                                               ELSE compositeCanvas(load.layers, offScreen)]
  /\ CanvasStep("StaleImageLoaded06")

\* removeLayer (ColorContext.tsx 899-911) on the document the Canvas shows:
\* the colour state is a new object, so the effect (139-163) runs again over
\* the remaining layers while the loads of the last run are still in flight
removeLayerShown(fileId, layerId) ==
  /\ Alive
  /\ canvas.component = "part_006"
  /\ removeLayer(fileId, layerId)
  /\ selectedIndex' = selectedIndex
  /\ canvas' =
       IF ~(Has(fileColorStates', fileId) /\ Has(fileColorStates'[fileId], "layers"))
       THEN NoCanvas
       ELSE LET layers == fileColorStates'[fileId].layers
            IN [component |-> "part_006", layers |-> layers, offScreen |-> canvas.offScreen,
                pending |-> 1..Len(layers),
                composite |-> compositeCanvas(layers, canvas.offScreen),
                draws |-> Draws,
                stale |-> StaleLoads \cup PendingLoads(fileId)]

\* handleCloseFile (part_010 685-696) on the document the Canvas shows: the
\* component unmounts and its display canvas goes, the image loads it started
\* stay in flight with the off-screen canvases they hold
handleCloseFileShown(fileId) ==
  /\ canvas.component = "part_006"
  /\ handleCloseFile(fileId)
  /\ selectedIndex' = selectedIndex
  /\ canvas' = [component |-> "none", layers |-> <<>>, offScreen |-> canvas.offScreen,
                pending |-> {}, composite |-> Blank,
                stale |-> StaleLoads \cup PendingLoads(fileId)]

\* the component unmounts once its images have loaded
CanvasUnmount ==
  /\ Alive
  /\ canvas.component # "none"
  /\ canvas.pending = {}
  /\ canvas' = NoCanvas
  /\ CanvasStep("CanvasUnmount")

\* layer stacks: a top layer that is red on the first pixel and clear on the
\* second, over a bottom layer that is blue everywhere
TopBitmap == [p \in Pixels |-> IF p = <<0, 0>> THEN "red" ELSE "clear"]
BottomBitmap == [p \in Pixels |-> "blue"]
CanvasLayer(id, vis, px) ==
  [id |-> id, name |-> "Ext", isVisible |-> vis,
   canvasData |-> [w |-> 2 * tileSize, h |-> 1, px |-> px]]
CanvasStacks ==
  {<<CanvasLayer("k1", v1, TopBitmap), CanvasLayer("k2", v2, BottomBitmap)>> :
     v1 \in BOOLEAN, v2 \in BOOLEAN}
\* the pixels a mouse event can give: one inside the canvas, one to the right
\* of it (on its border) and one below it
InBounds(point) ==
  point[1] >= 0 /\ point[1] < 2 * tileSize /\ point[2] >= 0 /\ point[2] < 1
DrawPoints == {<<tileSize, 0>>, <<2 * tileSize, 0>>, <<0, 1>>}
CanvasDocs ==
  {[version |-> "0.2", id |-> "x1", name |-> "ext", width |-> 2 * tileSize, height |-> 1,
    layers |-> ls, activeLayerId |-> "k1"] : ls \in CanvasStacks}

\* ------------------------------------------------------------------------
\* SpecCanvas: a document loaded into the ColorProvider or handed to
\* LayerContext, and one of the Canvas components rendering it
NextCanvas ==
  \/ \E d \in CanvasDocs : handleLoadFile(d) /\ UNCHANGED uiVars
  \/ \E ls \in CanvasStacks : setFileLayers("x1", ls) /\ UNCHANGED uiVars
  \/ \E f \in LayoutFileIds : CanvasEffect06(f)
  \/ \E k \in canvas.pending : ImageLoaded06(k)
  \/ \E f \in LayoutFileIds, p \in DrawPoints : draw(f, p)
  \/ \E l \in StaleLoads : StaleImageLoaded06(l)
  \/ \E f \in LayoutFileIds : drawLayers07(f)
  \/ \E f \in DOMAIN fileLayersState : drawLayers08(f)
  \/ \E k \in canvas.pending : ImageLoaded(k)
  \/ drawLayersAgain
  \/ CanvasUnmount

SpecCanvas == Init /\ [][NextCanvas]_vars

\* ------------------------------------------------------------------------
\* SpecDecode: the Canvas of part_006 showing a loaded document while its
\* layers are deleted or the document is closed
NextDecode ==
  \/ \E d \in CanvasDocs : handleLoadFile(d) /\ UNCHANGED uiVars
  \/ \E f \in LayoutFileIds : CanvasEffect06(f)
  \/ \E k \in canvas.pending : ImageLoaded06(k)
  \/ \E f \in LayoutFileIds : \E l \in CCLayerArgs(f) \ {Ghost} : removeLayerShown(f, l)
  \/ \E f \in LayoutFileIds : handleCloseFileShown(f)
  \/ \E l \in StaleLoads : StaleImageLoaded06(l)

SpecDecode == Init /\ [][NextDecode]_vars

\* a stroke in the Canvas of part_007 (73-102), once the images of the layers
\* have loaded: draw paints on the buffer canvas, which holds what drawLayers
\* has drawn of all the layers, stopDrawing stores the buffer canvas as the
\* data of the active layer, and the effect (39-114) runs again for the new
\* colour state.  The line is taken to cover the one pixel under the mouse.
stroke07(fileId, point) ==
  /\ Alive
  /\ canvas.component = "part_007"
  /\ canvas.pending = {}
  /\ ~Has(canvas, "earlier")
  /\ Draws < MaxDraws
  /\ Has(fileColorStates, fileId)
  /\ \E k \in 1..Len(canvas.layers) :
       canvas.layers[k].id = Field(fileColorStates, fileId, "activeLayerId")
  /\ LET id == fileColorStates[fileId].activeLayerId
         colour == IF Field(fileColorStates, fileId, "currentColor") \notin {Null, ""}
                   THEN fileColorStates[fileId].currentColor ELSE "black"
         buffer == fillRect(canvas.composite, point, colour)
         data == [w |-> 2 * tileSize, h |-> 1, px |-> buffer]
         stored == updateLayerDataCC(fileColorStates, fileId, id, data)
         layers == stored[fileId].layers
     IN /\ fileColorStates' = stored
        /\ canvas' = [component |-> "part_007", layers |-> layers, offScreen |-> EmptyMap,
                      pending |-> {k \in 1..Len(layers) : layers[k].isVisible},
                      composite |-> Blank, draws |-> Draws + 1]
  /\ error' = "none"
  /\ lastOp' = [op |-> "stroke07", point |-> point]
  /\ UNCHANGED <<uuids, layerVars, fileVars, layoutFiles, layoutActiveFileId, selectedIndex>>

\* ------------------------------------------------------------------------
\* SpecStroke: a loaded document shown by the Canvas of part_006 or of
\* part_007 and painted on
NextStroke ==
  \/ \E d \in CanvasDocs : Len(layoutFiles) = 0 /\ handleLoadFile(d) /\ UNCHANGED uiVars
  \/ \E f \in LayoutFileIds : CanvasEffect06(f)
  \/ \E k \in canvas.pending : ImageLoaded06(k)
  \/ \E f \in LayoutFileIds, p \in DrawPoints : draw(f, p)
  \/ \E l \in StaleLoads : StaleImageLoaded06(l)
  \/ \E f \in LayoutFileIds : drawLayers07(f)
  \/ \E k \in canvas.pending : ImageLoaded(k)
  \/ \E f \in LayoutFileIds, p \in Pixels : stroke07(f, p)
  \/ CanvasUnmount

SpecStroke == Init /\ [][NextStroke]_vars

\* ------------------------------------------------- exportAsPNG
\* the export canvas is kept in `canvas`: the layers the call read, the image
\* loads still pending, what has been drawn so far and the images handed to
\* toBlob, which copies the canvas as it is at the call
ExportDocs ==
  {[version |-> "0.3", id |-> "x1", name |-> "ext", width |-> 2 * tileSize, height |-> 1,
    layers |-> ls, activeLayerId |-> "k1"] : ls \in CanvasStacks}

Exporting == canvas.component \in {"exportAsPNG", "exportAsPNG14"}
Emitted == IF Has(canvas, "emitted") THEN canvas.emitted ELSE <<>>

\* the forEach over the reversed layers: an image load for every visible layer
ExportStart(component, layers) ==
  [component |-> component, layers |-> layers, offScreen |-> EmptyMap,
   pending |-> {k \in 1..Len(layers) : layers[k].isVisible},
   composite |-> drawCheckerboard, emitted |-> <<>>]

\* exportAsPNG of FileContext.tsx (149-189): the layers of the entry of `files`
exportAsPNG(fileId) ==
  /\ Alive
  /\ canvas.component = "none"
  /\ FindFile(fileId) # {}
  /\ Has(FirstFile(fileId), "layers")
  /\ canvas' = ExportStart("exportAsPNG", FirstFile(fileId).layers)
  /\ CanvasStep("exportAsPNG")

\* exportAsPNG of part_014 (452-500): it first loads the image of the first
\* layer for its size, and returns early without a first layer
exportAsPNG14(fileId) ==
  /\ Alive
  /\ canvas.component = "none"
  /\ Has(fileColorStates, fileId)
  /\ Len(fileColorStates[fileId].layers) > 0
  /\ canvas' = [component |-> "exportAsPNG14", layers |-> fileColorStates[fileId].layers,
                offScreen |-> EmptyMap, pending |-> {}, composite |-> Blank,
                emitted |-> <<>>, sizing |-> TRUE]
  /\ CanvasStep("exportAsPNG14")

\* img.onload of the first layer's image (part_014 465-497)
FirstLayerLoaded ==
  /\ Alive
  /\ canvas.component = "exportAsPNG14"
  /\ Has(canvas, "sizing")
  /\ canvas' = ExportStart("exportAsPNG14", canvas.layers)
  /\ CanvasStep("FirstLayerLoaded")

\* layerImg.onload for the image of layer k: it is drawn, and when the layer
\* is the first of the list the canvas is handed to toBlob and downloaded
LayerImgLoaded(k) ==
  /\ Alive
  /\ Exporting
  /\ k \in canvas.pending
  /\ LET drawn == drawImage(canvas.composite, canvas.layers[k].canvasData.px)
     IN canvas' = [canvas EXCEPT !.pending = canvas.pending \ {k},
                                 !.composite = drawn,
                                 !.emitted = IF canvas.layers[k].id = canvas.layers[1].id
                                             THEN Append(canvas.emitted, drawn)
                                             ELSE canvas.emitted]
  /\ CanvasStep("LayerImgLoaded")

\* nothing of the export is left once no image load is pending
ExportOver ==
  /\ Alive
  /\ Exporting
  /\ ~Has(canvas, "sizing")
  /\ canvas.pending = {}
  /\ canvas' = NoCanvas
  /\ CanvasStep("ExportOver")

\* the image an export of these layers is to give: the checkerboard and the
\* visible layers from the last of the list to the first
ExportOf(layers) ==
  compositeCanvas(layers, [id \in LayerIdsOf(layers) |->
     layers[CHOOSE k \in 1..Len(layers) : layers[k].id = id].canvasData.px])

\* ------------------------------------------------------------------------
\* SpecExport: documents loaded into FileProvider or into the ColorProvider
\* of part_014, and exported; every image load that is pending finishes
NextExport ==
  \/ \E d \in ExportDocs : loadFile(d) /\ UNCHANGED uiVars
  \/ \E d \in ExportDocs : handleLoadFile14(d) /\ UNCHANGED uiVars
  \/ \E f \in OpenFileIds : exportAsPNG(f)
  \/ \E f \in LayoutFileIds : exportAsPNG14(f)
  \/ FirstLayerLoaded
  \/ \E k \in 1..MaxLayers : LayerImgLoaded(k)
  \/ ExportOver

SpecExport ==
  /\ Init
  /\ [][NextExport]_vars
  /\ WF_vars(FirstLayerLoaded)
  /\ WF_vars(\E k \in 1..MaxLayers : LayerImgLoaded(k))

\* ======= the colour operations of the second ColorProvider (ColorContext.tsx
\* 442-518), the ColorPalette components and the ColorPicker of unnamed/part_005
DEFAULT_NEW_COLOR == "rgba(200, 200, 200, 1)"

\* prev[fileId].palette throws a TypeError on a missing state, and a method
\* call on a missing palette does
PaletteMissing(s, fileId) == ~Has(s, fileId) \/ ~Has(s[fileId], "palette")

setCurrentColorUpd(s, fileId, color) ==
  Put(s, fileId, Put(FileState(s, fileId), "currentColor", color))

setSelectedColorIdNone(s, fileId, colorId) ==
  Put(s, fileId, Put(FileState(s, fileId), "selectedColorId", Null))
setSelectedColorIdUpd(s, fileId, colorId) ==
  Put(s, fileId, Put(FileState(s, fileId), "selectedColorId", colorId))

addToPaletteUpd(s, fileId, color, newId) ==
  Put(s, fileId, Put(s[fileId], "palette",
                     Append(s[fileId].palette, [id |-> newId, value |-> color])))

deletePaletteItemUpd(s, fileId, colorId) ==
  Put(s, fileId, Put(s[fileId], "palette",
                     Filter(s[fileId].palette,
                            [c \in Range(s[fileId].palette) |-> c.id # colorId])))

reorderPaletteUpd(s, fileId, newPalette) ==
  Put(s, fileId, Put(FileState(s, fileId), "palette", newPalette))

\* orders[(orders.indexOf(currentOrder) + 1) % 3]; indexOf gives -1 for an
\* order that is missing or unknown
orders == <<"default", "lightness-asc", "lightness-desc">>
NextOrder(currentOrder) ==
  IF \E i \in 1..3 : orders[i] = currentOrder
  THEN orders[((CHOOSE i \in 1..3 : orders[i] = currentOrder) % 3) + 1]
  ELSE orders[1]
toggleSortOrderUpd(s, fileId) ==
  Put(s, fileId, Put(s[fileId], "sortOrder",
                     NextOrder(IF Has(s[fileId], "sortOrder")
                               THEN s[fileId].sortOrder ELSE Null)))

updatePaletteColorAll(s, fileId, colorId, newColor) ==
  Put(s, fileId, Put(s[fileId], "palette",
        [i \in 1..Len(s[fileId].palette) |->
           Put(s[fileId].palette[i], "value", newColor)]))
updatePaletteColorUpd(s, fileId, colorId, newColor) ==
  Put(s, fileId, Put(s[fileId], "palette",
        [i \in 1..Len(s[fileId].palette) |->
           IF s[fileId].palette[i].id = colorId
           THEN Put(s[fileId].palette[i], "value", newColor)
           ELSE s[fileId].palette[i]]))

\* the effect of ColorPicker (part_005 166-170) on the colour state of the
\* document the picker is mounted for
ColorPickerEffect(s, fileId) ==
  IF Field(s, fileId, "currentColor") \notin {Null, ""}
     /\ Field(s, fileId, "selectedColorId") \notin {Null, ""}
  THEN updatePaletteColorUpd(s, fileId, Field(s, fileId, "selectedColorId"),
                             Field(s, fileId, "currentColor"))
  ELSE s
\* the effect runs after a render in which one of its dependencies changed
EffectRuns(old, new, fileId) ==
  \/ Field(old, fileId, "currentColor") # Field(new, fileId, "currentColor")
  \/ Field(old, fileId, "selectedColorId") # Field(new, fileId, "selectedColorId")
EffectThrows(old, new, fileId) ==
  /\ EffectRuns(old, new, fileId)
  /\ Field(new, fileId, "currentColor") \notin {Null, ""}
  /\ Field(new, fileId, "selectedColorId") \notin {Null, ""}
  /\ PaletteMissing(new, fileId)
AfterRender(old, new, fileId) ==
  IF EffectRuns(old, new, fileId) THEN ColorPickerEffect(new, fileId) ELSE new

\* the HSL lightness, in percent, of the colours the model uses
Grey == DEFAULT_NEW_COLOR
Lightness(value) ==
  CASE value = Black -> 0
    [] value = Red -> 50
    [] value = Grey -> 78
    [] value = White -> 100
    [] OTHER -> 0

\* a stable sort of the palette by lightness: at each step the first of the
\* entries that no other entry precedes in the order
RECURSIVE SortByLightness(_, _)
SortByLightness(p, descending) ==
  IF p = <<>> THEN <<>>
  ELSE LET key(i) == IF descending THEN 0 - Lightness(p[i].value) ELSE Lightness(p[i].value)
           first == CHOOSE i \in 1..Len(p) :
                      /\ \A j \in 1..Len(p) : key(i) <= key(j)
                      /\ \A j \in 1..(i - 1) : key(j) > key(i)
       IN <<p[first]>> \o SortByLightness(SubSeq(p, 1, first - 1) \o SubSeq(p, first + 1, Len(p)),
                                          descending)

\* the palette as the ColorPalette component of ColorPalette.tsx shows it
sortedPalette(fileId) ==
  IF Field(fileColorStates, fileId, "sortOrder") = "lightness-asc"
  THEN SortByLightness(PaletteOf(fileId), FALSE)
  ELSE IF Field(fileColorStates, fileId, "sortOrder") = "lightness-desc"
  THEN SortByLightness(PaletteOf(fileId), TRUE)
  ELSE PaletteOf(fileId)

\* arrayMove of @dnd-kit/sortable, for indices counted from zero
arrayMove(array, from, to) == SpliceMove(array, from, to)

PositionOf(p, id) == CHOOSE i \in 1..Len(p) : p[i].id = id
PaletteIds(p) == {p[i].id : i \in 1..Len(p)}

\* the ColorPalette component renders its swatches when a document is active
\* and has a colour state
PaletteShown ==
  layoutActiveFileId # Null /\ Has(fileColorStates, layoutActiveFileId)

\* the document whose current colour and selected colour the ColorPicker reads:
\* the layout mounts the picker for the active document
PickerDocument == layoutActiveFileId

\* a handler's state updates land, the tree renders again and the effect of
\* the ColorPicker runs
ColorCommit(op, s, index, drawn) ==
  IF EffectThrows(fileColorStates, s, PickerDocument)
  THEN Crash(op.op) /\ canvas' = canvas /\ selectedIndex' = NoIndex
  ELSE /\ lastOp' = op
       /\ uuids' = uuids + drawn
       /\ error' = "none"
       /\ fileColorStates' = AfterRender(fileColorStates, s, PickerDocument)
       /\ selectedIndex' = index
       /\ UNCHANGED <<layerVars, fileVars, layoutFiles, layoutActiveFileId, canvas>>

\* LayersWidget.tsx 306-317; index is the position of the swatch clicked
handleSelectColor(index) ==
  LET fileId == layoutActiveFileId
      entry == PaletteOf(fileId)[index]
      value == IF Has(entry, "value") /\ entry.value # "" THEN entry.value ELSE Null
      id == IF Has(entry, "id") /\ entry.id # "" THEN entry.id ELSE Null
  IN /\ Alive
     /\ PaletteShown
     /\ IF selectedIndex = index
        THEN ColorCommit([op |-> "handleSelectColor", index |-> index, deselect |-> TRUE],
               setSelectedColorIdUpd(setCurrentColorUpd(fileColorStates, fileId, Null),
                                     fileId, Null),
               NoIndex, 0)
        ELSE ColorCommit([op |-> "handleSelectColor", index |-> index, deselect |-> FALSE],
               setSelectedColorIdUpd(setCurrentColorUpd(fileColorStates, fileId, value),
                                     fileId, id),
               index, 0)

\* LayersWidget.tsx 298-304
handleAddNewColor ==
  LET fileId == layoutActiveFileId
      newColor == IF Field(fileColorStates, fileId, "currentColor") \notin {Null, ""}
                  THEN Field(fileColorStates, fileId, "currentColor")
                  ELSE DEFAULT_NEW_COLOR
  IN /\ Alive
     /\ PaletteShown
     /\ uuids < MaxUuid
     /\ IF PaletteMissing(fileColorStates, fileId)
        THEN Crash("handleAddNewColor") /\ canvas' = canvas /\ selectedIndex' = NoIndex
        ELSE ColorCommit([op |-> "handleAddNewColor", color |-> newColor],
               setCurrentColorUpd(addToPaletteUpd(fileColorStates, fileId, newColor, uuidv4),
                                  fileId, newColor),
               Len(PaletteOf(fileId)) + 1, 1)

\* the swap of the highlighted position that both handleDragEnd make
DraggedIndex(oldIndex, newIndex) ==
  IF selectedIndex = oldIndex THEN newIndex
  ELSE IF selectedIndex = newIndex THEN oldIndex
  ELSE selectedIndex

\* LayersWidget.tsx 283-296: the swatches shown are the stored palette
handleDragEnd(activeId, overId) ==
  LET fileId == layoutActiveFileId
      oldIndex == PositionOf(PaletteOf(fileId), activeId)
      newIndex == PositionOf(PaletteOf(fileId), overId)
  IN /\ Alive
     /\ PaletteShown
     /\ activeId # overId
     /\ ColorCommit([op |-> "handleDragEnd"],
          reorderPaletteUpd(fileColorStates, fileId,
                            arrayMove(PaletteOf(fileId), oldIndex - 1, newIndex - 1)),
          DraggedIndex(oldIndex, newIndex), 0)

\* ColorPalette.tsx 101-114: the swatches shown are sortedPalette
handleDragEndSorted(activeId, overId) ==
  LET fileId == layoutActiveFileId
      oldIndex == PositionOf(sortedPalette(fileId), activeId)
      newIndex == PositionOf(sortedPalette(fileId), overId)
  IN /\ Alive
     /\ PaletteShown
     /\ activeId # overId
     /\ ColorCommit([op |-> "handleDragEndSorted"],
          reorderPaletteUpd(fileColorStates, fileId,
                            arrayMove(sortedPalette(fileId), oldIndex - 1, newIndex - 1)),
          DraggedIndex(oldIndex, newIndex), 0)

deletePaletteItem(colorId) ==
  /\ Alive
  /\ PaletteShown
  /\ IF PaletteMissing(fileColorStates, layoutActiveFileId)
     THEN Crash("deletePaletteItem") /\ canvas' = canvas /\ selectedIndex' = NoIndex
     ELSE ColorCommit([op |-> "deletePaletteItem"],
            deletePaletteItemUpd(fileColorStates, layoutActiveFileId, colorId),
            selectedIndex, 0)

toggleSortOrder ==
  /\ Alive
  /\ PaletteShown
  /\ ColorCommit([op |-> "toggleSortOrder"],
       toggleSortOrderUpd(fileColorStates, layoutActiveFileId), selectedIndex, 0)

\* part_005 134-164: a slider moves and the picker hands the colour it now
\* shows to setCurrentColor
handleSliderChange(updatedColor) ==
  /\ Alive
  /\ PaletteShown
  /\ ColorCommit([op |-> "handleSliderChange", color |-> updatedColor],
       setCurrentColorUpd(fileColorStates, layoutActiveFileId, updatedColor),
       selectedIndex, 0)

\* ------------------------------------------------------------------------
\* SpecColor: documents created or loaded in the PhotoshopLayout, and the
\* palette and picker widgets acting on the active one
PickerColors == {Red}
ShownIds == PaletteIds(PaletteOf(layoutActiveFileId))

NextColor ==
  \/ \E w \in Widths, h \in Heights, n \in Names :
        handleCreateNewFile(w, h, n, TRUE) /\ UNCHANGED uiVars
  \/ handleLoadFile(ExtV2) /\ UNCHANGED uiVars
  \/ \E i \in 1..Len(PaletteOf(layoutActiveFileId)) : handleSelectColor(i)
  \/ handleAddNewColor
  \/ toggleSortOrder
  \/ \E c \in PickerColors : handleSliderChange(c)

SpecColor == Init /\ [][NextColor]_vars

\* SpecSort: a created document whose swatches are sorted, deleted and dragged
\* to a new place
NextSort ==
  \/ \E w \in Widths, h \in Heights, n \in Names :
        handleCreateNewFile(w, h, n, TRUE) /\ UNCHANGED uiVars
  \/ \E i \in 1..Len(PaletteOf(layoutActiveFileId)) : handleSelectColor(i)
  \/ handleAddNewColor
  \/ toggleSortOrder
  \/ \E c \in ShownIds : deletePaletteItem(c)
  \/ \E a \in ShownIds, o \in ShownIds : handleDragEnd(a, o)
  \/ \E a \in ShownIds, o \in ShownIds : handleDragEndSorted(a, o)

SpecSort == Init /\ [][NextSort]_vars

\* --------------- store operations called with the id of a document that is
\* not in the store
\* setCurrentColor of the second ColorProvider (ColorContext.tsx 442-450)
setCurrentColor(fileId, color) ==
  /\ Alive
  /\ fileColorStates' = setCurrentColorUpd(fileColorStates, fileId, color)
  /\ error' = "none"
  /\ lastOp' = [op |-> "setCurrentColor"]
  /\ UNCHANGED <<uuids, layerVars, fileVars, layoutFiles, layoutActiveFileId>>

\* setActiveLayer of part_014 (396-404)
setActiveLayer14(fileId, layerId) ==
  /\ Alive
  /\ fileColorStates' =
       Put(fileColorStates, fileId, Put(FileState(fileColorStates, fileId), "activeLayerId", layerId))
  /\ error' = "none"
  /\ lastOp' = [op |-> "setActiveLayer"]
  /\ UNCHANGED <<uuids, layerVars, fileVars, layoutFiles, layoutActiveFileId>>

\* the ids handed out so far, some of documents that have been closed since,
\* and an id that was never a document's
DocumentArgs == {UuidPool[i] : i \in 1..uuids} \cup {Ghost}

GoneLayerArgs(fileId) ==
  (IF Has(fileColorStates, fileId) /\ Has(fileColorStates[fileId], "layers")
   THEN LayerIdsOf(fileColorStates[fileId].layers) ELSE {}) \cup {Ghost}

\* ------------------------------------------------------------------------
\* SpecGone: documents are created and closed, and the operations that take a
\* document id are called with ids that are in the store and ids that are not
NextGone ==
  \/ \E w \in Widths, h \in Heights, n \in Names, t \in BOOLEAN :
        handleCreateNewFile14(w, h, n, t) /\ UNCHANGED uiVars
  \/ \E f \in LayoutFileIds : handleClose(f) /\ UNCHANGED uiVars
  \/ \E ls \in LayerListArgs : setFileLayers("x1", ls) /\ UNCHANGED uiVars
  \/ \E f \in DocumentArgs, l \in LayerArgs : toggleLayerVisibility(f, l) /\ UNCHANGED uiVars
  \/ \E f \in DocumentArgs, c \in {Black, Red} : setCurrentColor(f, c) /\ UNCHANGED uiVars
  \/ \E f \in DocumentArgs : \E l \in GoneLayerArgs(f) : setActiveLayer14(f, l) /\ UNCHANGED uiVars

SpecGone == Init /\ [][NextGone]_vars

\* ================= the colour conversions the ColorPicker of part_005 imports
\* numbers are exact fractions <<numerator, denominator>> in lowest terms with
\* a positive denominator
RECURSIVE Gcd(_, _)
Gcd(a, b) == IF b = 0 THEN a ELSE Gcd(b, a % b)
Abs(a) == IF a < 0 THEN 0 - a ELSE a
Frac(n, d) ==
  LET g == Gcd(Abs(n), Abs(d))
      sign == IF d < 0 THEN 0 - 1 ELSE 1
  IN <<(sign * n) \div g, (sign * d) \div g>>
Whole(n) == <<n, 1>>
FAdd(x, y) ==
  LET l == (x[2] \div Gcd(x[2], y[2])) * y[2]
  IN Frac((x[1] * (l \div x[2])) + (y[1] * (l \div y[2])), l)
FSub(x, y) == FAdd(x, <<0 - y[1], y[2]>>)
FMul(x, y) ==
  LET a == Frac(x[1], y[2])
      b == Frac(y[1], x[2])
  IN Frac(a[1] * b[1], a[2] * b[2])
FDiv(x, y) == FMul(x, Frac(y[2], y[1]))
FLess(x, y) == x[1] * y[2] < y[1] * x[2]
\* Math.round: the integer nearest to x, halves going up
MathRound(x) ==
  LET n == (2 * x[1]) + x[2]
      d == 2 * x[2]
  IN (n - (n % d)) \div d

Max3(a, b, c) == IF a >= b /\ a >= c THEN a ELSE IF b >= c THEN b ELSE c
Min3(a, b, c) == IF a <= b /\ a <= c THEN a ELSE IF b <= c THEN b ELSE c

\* rgbToHsl: hue in degrees, saturation and lightness in percent
rgbToHsl(r, g, b) ==
  LET max == Max3(r, g, b)
      min == Min3(r, g, b)
      d == max - min
      l == Frac(max + min, 510)
      s == IF d = 0 THEN Whole(0)
           ELSE IF max + min > 255 THEN Frac(d, 510 - max - min) ELSE Frac(d, max + min)
      h == IF d = 0 THEN Whole(0)
           ELSE IF max = r THEN FAdd(Frac(g - b, d), Whole(IF g < b THEN 6 ELSE 0))
           ELSE IF max = g THEN FAdd(Frac(b - r, d), Whole(2))
           ELSE FAdd(Frac(r - g, d), Whole(4))
  IN <<FMul(h, Whole(60)), FMul(s, Whole(100)), FMul(l, Whole(100))>>

hue2rgb(p, q, t0) ==
  LET t == IF FLess(t0, Whole(0)) THEN FAdd(t0, Whole(1))
           ELSE IF FLess(Whole(1), t0) THEN FSub(t0, Whole(1)) ELSE t0
  IN IF FLess(t, <<1, 6>>) THEN FAdd(p, FMul(FMul(FSub(q, p), Whole(6)), t))
     ELSE IF FLess(t, <<1, 2>>) THEN q
     ELSE IF FLess(t, <<2, 3>>)
     THEN FAdd(p, FMul(FMul(FSub(q, p), FSub(<<2, 3>>, t)), Whole(6)))
     ELSE p

\* hslToRgb: the three channels on the scale of 0 to 255
hslToRgb(h360, s100, l100) ==
  LET h == FDiv(h360, Whole(360))
      s == FDiv(s100, Whole(100))
      l == FDiv(l100, Whole(100))
      q == IF FLess(l, <<1, 2>>) THEN FMul(l, FAdd(Whole(1), s))
           ELSE FSub(FAdd(l, s), FMul(l, s))
      p == FSub(FMul(Whole(2), l), q)
  IN IF s = Whole(0)
     THEN <<FMul(l, Whole(255)), FMul(l, Whole(255)), FMul(l, Whole(255))>>
     ELSE <<FMul(hue2rgb(p, q, FAdd(h, <<1, 3>>)), Whole(255)),
            FMul(hue2rgb(p, q, h), Whole(255)),
            FMul(hue2rgb(p, q, FSub(h, <<1, 3>>)), Whole(255))>>

\* rgbToCmyk: k = 1 - max/255 and c = (1 - r/255 - k)/(1 - k), in percent;
\* for pure black, k = 1 and c = m = y = 0
rgbToCmyk(r, g, b) ==
  LET k == FSub(Whole(1), Frac(Max3(r, g, b), 255))
      part(v) == IF k = Whole(1) THEN Whole(0)
                 ELSE FDiv(FSub(FSub(Whole(1), Frac(v, 255)), k), FSub(Whole(1), k))
  IN <<FMul(part(r), Whole(100)), FMul(part(g), Whole(100)),
       FMul(part(b), Whole(100)), FMul(k, Whole(100))>>

\* cmykToRgb: 255 (1 - c)(1 - k) for each channel
cmykToRgb(c, m, y, k) ==
  LET part(v) == FMul(FMul(Whole(255), FSub(Whole(1), FDiv(v, Whole(100)))),
                      FSub(Whole(1), FDiv(k, Whole(100))))
  IN <<part(c), part(m), part(y)>>

\* updateAllColors of part_005 (106-120): each channel rounded and held
\* between 0 and 255
validChannelPercent(x) ==
  IF MathRound(x) > 100 THEN 100 ELSE IF MathRound(x) < 0 THEN 0 ELSE MathRound(x)
validChannel(x) ==
  IF MathRound(x) > 255 THEN 255 ELSE IF MathRound(x) < 0 THEN 0 ELSE MathRound(x)
validRgba(rgb) == <<validChannel(rgb[1]), validChannel(rgb[2]), validChannel(rgb[3])>>

\* ------------------------------------------------------------------------
\* SpecMath: the picker is handed a current colour, converts it to HSL and
\* to CMYK (updateAllColors) and converts each of them back (handleSliderChange)
ChannelValues == {0, 1, 127, 128, 255}
InitMath ==
  /\ \E r \in ChannelValues, g \in ChannelValues, b \in ChannelValues :
       lastOp = [op |-> "currentColor", rgba |-> <<r, g, b>>]
  /\ uuids = 0
  /\ error = "none"
  /\ fileLayersState = EmptyMap
  /\ activeLayerIds = EmptyMap
  /\ selectedLayerIds = EmptyMap
  /\ files = <<>>
  /\ activeFileId = Null
  /\ canvasData = EmptyMap
  /\ notified = <<>>
  /\ shared = "default"
  /\ fileColorStates = EmptyMap
  /\ layoutFiles = <<>>
  /\ layoutActiveFileId = Null
  /\ canvas = NoCanvas
  /\ selectedIndex = NoIndex

MathStep(op) ==
  /\ lastOp' = op
  /\ UNCHANGED <<uuids, error, layerVars, fileVars, colorVars, canvas, selectedIndex>>

updateAllColors ==
  /\ lastOp.op = "currentColor"
  /\ LET rgb == lastOp.rgba
     IN MathStep([op |-> "updateAllColors", rgba |-> rgb,
                  hsla |-> rgbToHsl(rgb[1], rgb[2], rgb[3]),
                  cmyka |-> rgbToCmyk(rgb[1], rgb[2], rgb[3])])

\* handleSliderChange of part_005 (134-164) with a slider reporting the value
\* its component already holds: the HSL sliders hand their colour to
\* hslToRgb, the CMYK sliders theirs to cmykToRgb, and updateAllColors rounds
\* the result
handleSliderChangeModel(model) ==
  /\ lastOp.op = "updateAllColors"
  /\ MathStep([op |-> "handleSliderChange", model |-> model, rgba |-> lastOp.rgba,
               newColor |-> validRgba(IF model = "hsla"
                                      THEN hslToRgb(lastOp.hsla[1], lastOp.hsla[2], lastOp.hsla[3])
                                      ELSE cmykToRgb(lastOp.cmyka[1], lastOp.cmyka[2],
                                                     lastOp.cmyka[3], lastOp.cmyka[4]))])

NextMath ==
  \/ updateAllColors
  \/ \E m \in {"hsla", "cmyka"} : handleSliderChangeModel(m)

SpecMath == InitMath /\ [][NextMath]_vars

\* ------------------------------------------------------------------------
\* Spec: the providers App.tsx mounts (FileProvider, LayerProvider,
\* ColorProvider) with any number of documents up to MaxFiles
Next ==
  \/ \E w \in Widths, h \in Heights, n \in Names, t \in BOOLEAN : createNewFile(w, h, n, t) /\ UNCHANGED uiVars
  \/ \E d \in LoadArgs : loadFile(d) /\ UNCHANGED uiVars
  \/ \E f \in FileArgs : closeFile(f) /\ UNCHANGED uiVars
  \/ \E f \in FileArgs : activateFile(f) /\ UNCHANGED uiVars
  \/ \E f \in OpenFileIds : saveFile(f) /\ UNCHANGED uiVars
  \/ \E f \in FileArgs : getFileColorState(f) /\ UNCHANGED uiVars
  \/ \E f \in OpenFileIds : addLayer(f, DefaultLayerName) /\ UNCHANGED uiVars
  \/ \E f \in FileArgs : updateCanvasData(f, DrawnCanvas) /\ UNCHANGED uiVars

Spec == Init /\ [][Next]_vars


\* ========================================================================
\* Claims
\* ========================================================================

\* C1: in every reachable state each document's activeLayerId is none or the
\* id of a layer currently in that document's layer list
C1_ActiveLayerIsPresent ==
  \A f \in DOMAIN activeLayerIds :
    activeLayerIds[f] = Null \/ activeLayerIds[f] \in LayerIdsOf(getLayers(f))

\* C2: in every reachable state every element of a document's
\* selectedLayerIds is the id of a layer currently in that document's list
C2_SelectedLayersArePresent ==
  \A f \in DOMAIN selectedLayerIds :
    Range(selectedLayerIds[f]) \subseteq LayerIdsOf(getLayers(f))

\* C4: deleteLayer(doc, L) removes L and keeps the order of the others; when L
\* was the active layer the new top layer (or none) becomes active, otherwise
\* the active layer is unchanged
C4_DeleteLayerReassignsActive ==
  [][\A f \in OpenFileIds : \A l \in LayerIdsOf(getLayers(f)) :
       (deleteLayer(f, l) /\ error' = "none") =>
          /\ l \notin LayerIdsOf(fileLayersState'[f])
          /\ fileLayersState'[f] = WithoutLayer(fileLayersState[f], l)
          /\ activeLayerIds'[f] = IF getActiveLayerId(f) = l
                                  THEN FirstIdOrNull(fileLayersState'[f])
                                  ELSE getActiveLayerId(f)]_vars

\* C6: addLayer puts exactly one new transparent layer at index 0, keeps the
\* other layers in order, makes the new layer active and the sole selection
C6_AddLayerActiveAndSoleSelected ==
  [][\A f \in OpenFileIds :
       addLayer(f, DefaultLayerName) =>
          LET newLayers == fileLayersState'[f] IN
          /\ Len(newLayers) = Len(getLayers(f)) + 1
          /\ newLayers[1].id \notin LayerIdsOf(getLayers(f))
          /\ newLayers[1].canvasData.px = "transparent"
          /\ Tail(newLayers) = getLayers(f)
          /\ activeLayerIds'[f] = newLayers[1].id
          /\ Has(selectedLayerIds', f)
          /\ selectedLayerIds'[f] = <<newLayers[1].id>>]_vars

\* C8: the layer list and active layer id written by saveFile are the layer
\* store's current layer list and active layer id of that document
C8_SaveWritesCurrentLayers ==
  (lastOp.op = "saveFile" /\ Has(lastOp, "download")) =>
     /\ Has(lastOp.download, "layers")
     /\ lastOp.download.layers = getLayers(lastOp.download.id)
     /\ Has(lastOp.download, "activeLayerId")
     /\ lastOp.download.activeLayerId = getActiveLayerId(lastOp.download.id)

\* C5: right after createNewFile the new document is the active document and
\* has exactly one layer, which is its active layer; and the colour state of a
\* created document, whenever getFileColorState has been or is called for it,
\* has palette [Black, White] and current colour black
C5_CreateDocumentSeedsState ==
  /\ lastOp.op = "createNewFile" =>
       LET d == files[Len(files)].id IN
       /\ activeFileId = d
       /\ Len(getLayers(d)) = 1
       /\ getActiveLayerId(d) = getLayers(d)[1].id
       /\ Has(fileColorStates, d)
  /\ \A d \in OpenFileIds \cap Range(UuidPool) :
       Has(fileColorStates, d) =>
         /\ [i \in 1..Len(fileColorStates[d].palette) |-> fileColorStates[d].palette[i].value]
              = <<Black, White>>
         /\ fileColorStates[d].currentColor = Black

\* C3: the active document is none or a document of the open-files list, and
\* closing the active document makes a remaining document active when one
\* exists and none otherwise
C3_ActiveFileIsOpen ==
  /\ [](layoutActiveFileId = Null \/ layoutActiveFileId \in LayoutFileIds)
  /\ [][\A f \in LayoutFileIds :
          (layoutActiveFileId = f /\ handleCloseFile(f)) =>
             /\ f \notin {layoutFiles'[i].id : i \in 1..Len(layoutFiles')}
             /\ IF Len(layoutFiles') > 0
                THEN layoutActiveFileId' \in {layoutFiles'[i].id : i \in 1..Len(layoutFiles')}
                ELSE layoutActiveFileId' = Null]_vars

\* C10: loading a version "0.1" file that carries only a flat bitmap gives a
\* document with exactly one layer, visible, holding that bitmap, with the
\* legacy default name, that layer active, palette [Black, White] and current
\* colour black
C10_LegacyFlatBitmapLoad ==
  [][\A d \in CCLoadArgs :
       (Has(d, "version") /\ d.version = "0.1" /\ ~Has(d, "layers") /\ handleLoadFile(d)) =>
          /\ error' = "none"
          /\ Has(fileColorStates', d.id)
          /\ LET st == fileColorStates'[d.id] IN
             /\ Has(st, "layers") /\ Len(st.layers) = 1
             /\ st.layers[1].isVisible
             /\ Has(st.layers[1], "canvasData") /\ st.layers[1].canvasData = d.canvasData
             /\ st.layers[1].name = NumberedLayerName(1)
             /\ Has(st, "activeLayerId") /\ st.activeLayerId = st.layers[1].id
             /\ Has(st, "palette")
             /\ [i \in 1..Len(st.palette) |-> st.palette[i].value] = <<Black, White>>
             /\ Has(st, "currentColor") /\ st.currentColor = Black]_vars

\* C7: loading the save file that saveFile writes for a document gives a
\* document with the same id, name, width, height, layer list, active layer
\* id, palette, current colour, selected palette entry id and sort order
C7_SaveThenLoadRoundTrip ==
  [][\A f \in LayoutFileIds \cap DOMAIN fileColorStates :
       handleLoadFile14(savedFile14(f)) =>
          /\ error' = "none"
          /\ LET old == fileColorStates[f]
                 new == fileColorStates'[f]
                 oldFile == FirstLayoutFile(f)
                 newFile == layoutFiles'[Len(layoutFiles')]
             IN /\ newFile.id = f
                /\ newFile.name = oldFile.name
                /\ newFile.width = oldFile.width
                /\ newFile.height = oldFile.height
                /\ new.layers = old.layers
                /\ new.activeLayerId = old.activeLayerId
                /\ new.palette = old.palette
                /\ new.currentColor = old.currentColor
                /\ new.selectedColorId = old.selectedColorId
                /\ new.sortOrder = old.sortOrder]_vars

\* C9: a step that loads a save file without a version field is a step that
\* loads the same content with version "0.1", and conversely: same resulting
\* document and store state, or the same failure
C9_AbsentVersionIsLegacy ==
  [][\A d \in Load14Args :
       (~Has(d, "version") /\ ~Has(d, "malformed")) =>
          (handleLoadFile14(d) <=> handleLoadFile14(Put(d, "version", "0.1")))]_vars

\* C11: loading a save file whose version string is none of the known
\* versions does not fail: the document becomes an open, active document of
\* the layout with a stored layer list and colour state
C11_UnknownVersionLoads ==
  [][\A d \in Load14Args :
       (/\ Has(d, "version") /\ d.version \notin {"0.1", "0.2", "0.3"}
        /\ ~Has(d, "malformed")
        /\ handleLoadFile14(d))
       => /\ error' = "none"
          /\ d.id \in {layoutFiles'[i].id : i \in 1..Len(layoutFiles')}
          /\ Has(fileColorStates', d.id)
          /\ Has(fileColorStates'[d.id], "layers")
          /\ Has(fileColorStates'[d.id], "palette")]_vars

\* C12: loading a known-version save file that carries layers (version "0.2"
\* for this provider) and lacks some of palette,
\* currentColor, sortOrder and selectedColorId stores, for exactly the absent
\* fields, the initial palette, black, the insertion sort order and the id of
\* the first palette entry, and for the present fields the values of the file
C12_MissingColourFieldsDefault ==
  [][\A d \in CCLoadArgs :
       (/\ ~Has(d, "malformed") /\ Has(d, "version") /\ d.version = "0.2"
        /\ handleLoadFile(d))
       => LET st == fileColorStates'[d.id]
          IN /\ Has(st, "palette")
             /\ st.palette = IF Has(d, "palette") THEN d.palette ELSE INITIAL_PALETTE
             /\ Has(st, "currentColor")
             /\ st.currentColor = IF Has(d, "currentColor") THEN d.currentColor ELSE Black
             /\ Has(st, "sortOrder")
             /\ st.sortOrder = IF Has(d, "sortOrder") THEN d.sortOrder ELSE "default"
             /\ Has(st, "selectedColorId")
             /\ st.selectedColorId = IF Has(d, "selectedColorId") THEN d.selectedColorId
                                     ELSE st.palette[1].id]_vars

\* ------------------------------------------------------------------------
\* the files loadPalette rejects: unsupported extension, wrong binary
\* signature, wrong text header, no colour decoded
RejectedPaletteFiles == {PngFile, AseBadSignature, GplBadHeader, AseEmpty, GplEmpty}

DocumentsUnchanged ==
  UNCHANGED <<fileColorStates, layoutFiles, layoutActiveFileId, layerVars, fileVars>>

\* C13: a call of loadPalette that fails for an unsupported extension, a wrong
\* binary signature, a wrong text header or the lack of a decoded colour, and
\* a call of loadFile on malformed or rejected content, reports an error and
\* leaves every document's palette, colour state and layers and the list of
\* open files as they were
C13_FailedLoadLeavesState ==
  [][/\ \A f \in LayoutFileIds : \A file \in RejectedPaletteFiles :
          (lastOp'.op = "loadPalette" /\ loadPalette(f, file))
          => (error' # "none" /\ DocumentsUnchanged)
     /\ \A f \in LayoutFileIds :
          (lastOp'.op = "loadPalette14" /\ loadPalette14(f, PngFile))
          => (error' # "none" /\ DocumentsUnchanged)
     /\ handleLoadFile(Malformed) => (error' # "none" /\ DocumentsUnchanged)
     /\ handleLoadFile14(ExtFuture) => (error' # "none" /\ DocumentsUnchanged)]_vars

\* a rejected palette file was offered to a document that has a colour state
C13_Witness ==
  /\ lastOp.op = "loadPalette"
  /\ error = "Invalid ASE file signature"
  /\ Len(layoutFiles) > 0
  /\ \E f \in LayoutFileIds : Has(fileColorStates, f) /\ PaletteOf(f) # <<>>

\* C14: after closing an open document no layer list, active-layer entry,
\* selected-layer entry or canvas remains stored under its id, the document
\* is absent from the list of open files, and the entries of every other
\* document are as before
C14_CloseRemovesOwnedState ==
  [][\A f \in OpenFileIds :
       closeFile(f)
       => /\ f \notin {files'[i].id : i \in 1..Len(files')}
          /\ ~Has(canvasData', f)
          /\ ~Has(fileLayersState', f)
          /\ ~Has(activeLayerIds', f)
          /\ ~Has(selectedLayerIds', f)
          /\ \A g \in DOMAIN fileLayersState \ {f} :
                Has(fileLayersState', g) /\ fileLayersState'[g] = fileLayersState[g]]_vars

\* ------------------------------------------------------------------------
\* the channels a colour value spells out
Channels(value) == [i \in 1..Len(DigitRuns(value)) |-> DigitsValue(DigitRuns(value)[i])]

\* decoded holds the entries of original in the same order, with the same
\* channels and, for the named entries, the same names
SamePalette(decoded, original) ==
  /\ Len(decoded) = Len(original)
  /\ \A i \in 1..Len(original) :
        /\ Channels(decoded[i].value) = Channels(original[i].value)
        /\ Has(original[i], "name") => decoded[i].name = original[i].name

\* C15: the binary encoder produces a file for every palette of RGBA entries,
\* whatever the length of the names, and decoding that file yields the same
\* number of entries in the same order with equal colours and identical names
C15_AseRoundTrip ==
  [][/\ \A f \in LayoutFileIds :
          (PaletteOf(f) \in PaletteArgs /\ saveASEPalette(f)) => Has(lastOp', "blob")
     /\ \A f \in LayoutFileIds : \A file \in ReImport :
          (lastOp.op = "saveASEPalette" /\ loadPalette(f, file))
          => /\ error' = "none"
             /\ SamePalette(fileColorStates'[f].palette, lastOp.palette)]_vars

\* C16: decoding the output of the plain-text encoder for a palette with
\* integer channels in 0..255 yields the same number of entries in the same
\* order with exactly the same R, G, B values and identical names
C16_GplRoundTrip ==
  [][\A f \in LayoutFileIds : \A file \in ReImport :
       (lastOp.op = "saveGPLPalette" /\ loadPalette(f, file))
       => /\ error' = "none"
          /\ SamePalette(fileColorStates'[f].palette, lastOp.palette)]_vars

\* C17: a block with an unknown tag, a declared length and a body of exactly
\* that length, inserted between the two colour blocks of a well-formed file,
\* raises no error and leaves the decoded palette as it is without the block
C17_UnknownBlockSkipped ==
  [][\A f \in LayoutFileIds : \A n \in UnknownBlockLengths :
       loadPalette(f, AseUnknown(n))
       => /\ error' = "none"
          /\ fileColorStates'[f].palette = loadASEResult(AseTwo.body).palette]_vars

\* C18: when the block stream is cut after a colour entry that decoded
\* cleanly, the entries decoded up to the cut become the imported palette
C18_TruncatedKeepsPrefix ==
  [][\A f \in LayoutFileIds :
       loadPalette(f, AseTruncated)
       => /\ Has(fileColorStates', f)
          /\ PaletteOf(f)' = loadASEResult(AseFile(AseHeader(1) \o AseBlockSky).body).palette]_vars

\* ------------------------------------------------------------------------
\* the layers of the rendered stack that are visible and opaque at pixel p
ShownAt(p) ==
  {i \in 1..Len(canvas.layers) :
     canvas.layers[i].isVisible /\ canvas.layers[i].canvasData.px[p] # "clear"}

Rendered == canvas.component # "none" /\ canvas.pending = {}

\* C19: once every bitmap of the stack has been decoded, in whatever order,
\* each pixel of the composite at which some visible layer is opaque has the
\* colour of the topmost (lowest-index) such layer
C19_CompositeBottomToTop ==
  Rendered =>
    \A p \in Pixels :
      ShownAt(p) # {} =>
        canvas.composite[p] =
          canvas.layers[CHOOSE i \in ShownAt(p) : \A j \in ShownAt(p) : i <= j].canvasData.px[p]

\* C20: the composite of a stack whose layers are all hidden is fully
\* transparent at every pixel
C20_AllHiddenIsTransparent ==
  (/\ Rendered
   /\ Len(canvas.layers) > 0
   /\ \A i \in 1..Len(canvas.layers) : ~canvas.layers[i].isVisible)
  => \A p \in Pixels : canvas.composite[p] = "clear"

\* C21: a second composite run over the same unchanged layer stack ends with
\* the output of the first, whatever the order in which the images of either
\* run finish decoding
C21_CompositeRunsAgree ==
  (Rendered /\ Has(canvas, "earlier")) => canvas.composite = canvas.earlier


PaletteIn(s, fileId) == IF PaletteMissing(s, fileId) THEN <<>> ELSE s[fileId].palette

\* the steps of the palette and picker handlers that leave the document the
\* picker shows with another current colour, a colour and not none
ColorChanged ==
  /\ lastOp'.op \in {"handleSelectColor", "handleAddNewColor", "handleSliderChange"}
  /\ error' = "none"
  /\ Field(fileColorStates', PickerDocument, "currentColor") # Null
  /\ Field(fileColorStates', PickerDocument, "currentColor")
       # Field(fileColorStates, PickerDocument, "currentColor")

SortOrderOf(s, fileId) ==
  IF Field(s, fileId, "sortOrder") = Null THEN "default" ELSE Field(s, fileId, "sortOrder")

\* C24: toggleSortOrder moves a document from the insertion order to
\* lightness-asc, from there to lightness-desc and from there back, and
\* leaves its palette, current colour and selected colour as they were
C24_ToggleCyclesOrderOnly ==
  [][(lastOp'.op = "toggleSortOrder" /\ error' = "none") =>
       LET f == layoutActiveFileId
           from == SortOrderOf(fileColorStates, f)
           to == SortOrderOf(fileColorStates', f)
       IN /\ <<from, to>> \in {<<"default", "lightness-asc">>,
                               <<"lightness-asc", "lightness-desc">>,
                               <<"lightness-desc", "default">>}
          /\ Field(fileColorStates', f, "sortOrder") = to
          /\ \A k \in {"palette", "currentColor", "selectedColorId"} :
               /\ Has(fileColorStates'[f], k) <=> Has(fileColorStates[f], k)
               /\ Has(fileColorStates[f], k) => fileColorStates'[f][k] = fileColorStates[f][k]]_vars


\* C25: a drag of a swatch while the palette is shown sorted by lightness
\* leaves the stored palette, which is what the insertion order shows again,
\* in the order it had
C25_SortedDragKeepsInsertionOrder ==
  [][(/\ lastOp'.op = "handleDragEndSorted"
      /\ error' = "none"
      /\ Field(fileColorStates, layoutActiveFileId, "sortOrder")
           \in {"lightness-asc", "lightness-desc"}) =>
       PaletteIn(fileColorStates', layoutActiveFileId) = PaletteOf(layoutActiveFileId)]_vars


Occurrences(ls, x) == Cardinality({k \in 1..Len(ls) : ls[k] = x})
WithoutPosition(ls, k) == SubSeq(ls, 1, k - 1) \o SubSeq(ls, k + 1, Len(ls))

\* C26: whatever the two indices, reorderLayers leaves a list with the same
\* layers as before, each once and none replaced by an empty slot, the moved
\* layer at the target index and the others in their order, and it leaves the
\* active layer and the selection alone
C26_ReorderIsPermutation ==
  [][\A f \in OpenFileIds, i \in IndexArgs, j \in IndexArgs :
       (lastOp'.op = "reorderLayers" /\ reorderLayers(f, i, j)) =>
         LET old == getLayers(f)
             new == fileLayersState'[f]
         IN /\ Len(new) = Len(old)
            /\ ~HasHole(new)
            /\ \A x \in Range(old) \cup Range(new) : Occurrences(new, x) = Occurrences(old, x)
            /\ (i < Len(old) /\ j < Len(old)) =>
                 /\ new[j + 1] = old[i + 1]
                 /\ WithoutPosition(new, j + 1) = WithoutPosition(old, i + 1)
            /\ UNCHANGED <<activeLayerIds, selectedLayerIds>>]_vars


\* C27: a draw at a pixel outside of the document is not an error and leaves
\* the pixels of every layer and the rest of the stored document as they were
C27_OutOfBoundsDrawChangesNothing ==
  [][(lastOp'.op = "draw" /\ ~InBounds(lastOp'.point)) =>
       /\ error' = "none"
       /\ fileColorStates' = fileColorStates
       /\ UNCHANGED <<layoutFiles, layoutActiveFileId, layerVars, fileVars>>]_vars


\* C28: the documents of the open-files list have pairwise different ids
C28_OpenFileIdsUnique ==
  \A i, j \in 1..Len(files) : files[i].id = files[j].id => i = j


C30_LoadedDocumentIsWhole ==
  [][(/\ lastOp'.op = "loadFile"
      /\ error' = "none"
      /\ Len(files') > Len(files))
     => LET id == files'[Len(files')].id
        IN Has(fileLayersState', id) /\ Has(fileColorStates', id)]_vars

\* C31: when the image of a layer finishes decoding after the layer was
\* deleted or its document was closed, no off-screen layer canvas, no
\* composite and no store state changes
LoadOutlived(load) ==
  \/ load.fileId \notin LayoutFileIds
  \/ ~Has(fileColorStates, load.fileId)
  \/ load.id \notin LayerIdsOf(fileColorStates[load.fileId].layers)

C31_LateDecodeIsDiscarded ==
  [][\A load \in StaleLoads :
       (StaleImageLoaded06(load) /\ LoadOutlived(load))
       => /\ canvas'.offScreen = canvas.offScreen
          /\ canvas'.composite = canvas.composite
          /\ UNCHANGED <<layerVars, fileVars, colorVars>>]_vars

\* C32: the image exportAsPNG emits is the checkerboard with every visible
\* layer of the document drawn on it from the bottom one to the top one,
\* whatever the order in which the images of the layers finish loading
C32_ExportHasEveryVisibleLayer ==
  \A i \in 1..Len(Emitted) : Emitted[i] = ExportOf(canvas.layers)

\* C33: every export of a document with a layer, visible or not, emits an
\* image once its image loads have finished, and never more than one
C33_ExportEmitsOneImage ==
  /\ Exporting ~> (Exporting /\ Len(Emitted) = 1)
  /\ [](Len(Emitted) <= 1)

\* C34: an operation called with the id of a document that is not in the
\* store it works on changes nothing in any store, leaves no entry for that
\* id behind and raises no error
CallOnMissing(f) ==
  \/ /\ ~Has(fileLayersState, f)
     /\ \E l \in LayerArgs : toggleLayerVisibility(f, l)
  \/ /\ ~Has(fileColorStates, f)
     /\ \/ \E c \in {Black, Red} : setCurrentColor(f, c)
        \/ setActiveLayer14(f, Ghost)

C34_MissingDocumentIsNoOp ==
  [][\A f \in DocumentArgs :
       CallOnMissing(f) => /\ UNCHANGED <<layerVars, fileVars, colorVars>>
                           /\ error' = "none"]_vars

\* C35: the layer that addLayer puts on top of a document has a raster of
\* the document's width and height
C35_AddedLayerHasDocumentSize ==
  [][\A f \in OpenFileIds :
       addLayer(f, DefaultLayerName)
       => /\ fileLayersState'[f][1].canvasData.w = FirstFile(f).width
          /\ fileLayersState'[f][1].canvasData.h = FirstFile(f).height]_vars

\* C36: a stroke changes the stored bitmap of the active layer at the painted
\* pixel and nowhere else, and the stored bitmap of no other layer
StrokeOn(fileId, point) == draw(fileId, point) \/ stroke07(fileId, point)

C36_StrokeChangesPaintedPixelsOnly ==
  [][\A f \in LayoutFileIds, p \in Pixels :
       StrokeOn(f, p)
       => \A k \in 1..Len(fileColorStates[f].layers) :
            LET before == fileColorStates[f].layers[k]
                after == fileColorStates'[f].layers[k]
            IN IF before.id = fileColorStates[f].activeLayerId
               THEN \A q \in Pixels \ {p} : after.canvasData.px[q] = before.canvasData.px[q]
               ELSE after = before]_vars

\* C37: the selectedColorId of every document in the colour store is none or
\* the id of an entry of that document's palette
C37_SelectedColorIsInPalette ==
  \A f \in DOMAIN fileColorStates :
    \/ Field(fileColorStates, f, "selectedColorId") = Null
    \/ \E i \in 1..Len(PaletteIn(fileColorStates, f)) :
         PaletteIn(fileColorStates, f)[i].id = fileColorStates[f].selectedColorId

\* C38: loadASEPalette comes to an end, with a palette or with an error, on
\* every file that starts with the ASEF signature: its loop never stays at
\* the same offset
C38_AseLoaderTerminates ==
  lastOp.op = "loadPalette" => error # "hang"

\* C39: the value handed to the subscribers of onFileChange by createNewFile,
\* closeFile, activateFile and loadFile is the activeFileId that the
\* operation leaves
C39_NotifiedIsActiveFile ==
  (/\ lastOp.op \in {"createNewFile", "closeFile", "activateFile", "loadFile"}
   /\ error = "none"
   /\ notified # <<>>)
  => notified[Len(notified)] = activeFileId

====
